---- MODULE Spec2Model ----
(***************************************************************************)
(* A model of the tile sampling / compositing / animation engine of        *)
(* tiler-the-creator: the toolkit module (src/tiler_toolkit.py) and the     *)
(* fixed-tile-set sequencer (src/legacy/tiler-test-05.py).                  *)
(*                                                                         *)
(* Abstractions.                                                           *)
(*  - A random.Random generator is a state in 0..RngMod-1; every call of   *)
(*    randint / uniform / one step of shuffle advances it once (RngNext)    *)
(*    and reads its value from the new state.  The module-level generator   *)
(*    of `random` is a generator of the same kind whose initial state is    *)
(*    process entropy, i.e. unconstrained.                                  *)
(*  - A scale is an integer number of tenths (12 is 1.2).                   *)
(*  - A raster is its size, its mode, and a pixel function; the pixel of a  *)
(*    rendered tile is <<left, top, scale, i, j>>: the crop box and scale   *)
(*    it was resampled from and its position in the tile.                   *)
(***************************************************************************)
EXTENDS Integers, Sequences, FiniteSets, TLC

VARIABLES
    p_pc,       \* paste harness: "off" | "call" | "done"
    p_dest,     \* paste harness: the destination raster
    p_src,      \* paste harness: the source raster
    p_center,   \* paste harness: <<center_x, center_y>>
    p_res,      \* paste harness: what paste_with_center did
    s_pc,       \* sampler harness: "off" | "call" | "done"
    s_args,     \* sampler harness: img_w, img_h, tile_w, tile_h
    s_gen,      \* sampler harness: the generators and the draws made
    s_res,      \* sampler harness: what choose_random_tile_position returned
    t_pc,       \* toolkit: "off" | "single" | "frame" | "tiles" | "paint" | "done" | "error"
    t_cfg,      \* toolkit: the entry point called and its arguments
    t_gen,      \* toolkit: the generators and the draws made in this run
    t_placements, \* toolkit: build_layered_tiles' placements
    t_order,    \* toolkit: build_layered_tiles' order
    t_out,      \* toolkit: what this run sampled and returned
    t_run,      \* toolkit: 1 in the first run, 2 in the repeated run
    t_first,    \* toolkit: t_out of the first run, once it is over
    q_pc,       \* sequencer: where main() is
    q_cfg,      \* sequencer: the command line arguments and the image size
    q_gen,      \* sequencer: the generators and the draws made in this run
    q_tiles,    \* sequencer: tiles
    q_animate,  \* sequencer: animate_indices
    q_specs,    \* sequencer: anim_specs, in the order of animate_indices
    q_orders,   \* sequencer: orders
    q_alloc,    \* sequencer: build_unique_orders' seen, attempts and outcome
    q_frames,   \* sequencer: frames, and what each was painted from
    q_run,      \* sequencer: 1 in the first run, 2 in the repeated run
    q_first     \* sequencer: what the first run produced, once it is over

pasteVars == <<p_pc, p_dest, p_src, p_center, p_res>>

samplerVars == <<s_pc, s_args, s_gen, s_res>>

toolkitVars == <<t_pc, t_cfg, t_gen, t_placements, t_order, t_out, t_run, t_first>>

seqVars == <<q_pc, q_cfg, q_gen, q_tiles, q_animate, q_specs, q_orders, q_alloc,
             q_frames, q_run, q_first>>

vars == <<p_pc, p_dest, p_src, p_center, p_res, s_pc, s_args, s_gen, s_res,
          t_pc, t_cfg, t_gen, t_placements, t_order, t_out, t_run, t_first,
          q_pc, q_cfg, q_gen, q_tiles, q_animate, q_specs, q_orders, q_alloc,
          q_frames, q_run, q_first>>

----------------------------------------------------------------------------
(* Bounds of the model *)

MaxDest == 2        \* destination rasters are up to MaxDest x MaxDest
MaxSrc == 3         \* pasted rasters are up to MaxSrc x MaxSrc
Far == 2            \* paste centers range Far pixels beyond each edge
RngMod == 16        \* a generator has RngMod states
MaxImg == 3         \* sampled images are up to MaxImg x MaxImg
MaxTile == 2        \* tiles of a composite are up to MaxTile x MaxTile
MaxTiles == 2       \* tiles per composite
MaxFrames == 3      \* frames per animation
MaxSeed == 1        \* seeds are 0..MaxSeed
MaxAmbient == 1     \* the module-level generator starts in 0..MaxAmbient

MaxAllocTiles == 4  \* tiles_n of the allocator harness
MaxAllocFrames == 10 \* frames of the allocator harness
BigTiles == 9       \* a tiles_n whose factorial is above max_enum
OffsetFrac == 100   \* --animate-max-offset-frac of the runs, in hundredths

\* build_unique_orders: max_enum, and max_attempts = max(1000, frames * 50)
MaxEnum == 200000
MinAttempts == 1000
AttemptsPerFrame == 50

\* --animate-scale-delta-frac default, in hundredths
ScaleDeltaFracDefault == 25

\* --min-scale and --max-scale defaults, in tenths
MinScaleDefault == 12
MaxScaleDefault == 16

----------------------------------------------------------------------------
(* Rasters *)

Max(a, b) == IF a >= b THEN a ELSE b
Min(a, b) == IF a <= b THEN a ELSE b

\* The colour of a pixel no tile was pasted on (Image.new(mode, size, background)).
Bg == <<-1, -1, 0, 0, 0>>

Coords(w, h) == (0..(w - 1)) \X (0..(h - 1))

\* Image.new(mode, (w, h), background)
NewImage(w, h, mode) ==
    [w |-> w, h |-> h, mode |-> mode, alpha |-> 255,
     px |-> [c \in Coords(w, h) |-> Bg]]

\* A raster resampled from the crop box at (left, top) at scale `scale`:
\* pixel (i, j) is determined by the box, the scale and (i, j).
TileImage(w, h, mode, alpha, left, top, scale) ==
    [w |-> w, h |-> h, mode |-> mode, alpha |-> alpha,
     px |-> [c \in Coords(w, h) |-> <<left, top, scale, c[1], c[2]>>]]

\* Image.crop raises ValueError on a box whose right < left or lower < upper.
CropRaises(box) == box[3] < box[1] \/ box[4] < box[2]

----------------------------------------------------------------------------
(* Generators: random.Random and the module-level generator of `random` *)

RngStates == 0..(RngMod - 1)

\* random.Random(seed)
Random(seed) == seed % RngMod

\* one step of the generator
RngNext(s) == (5 * s + 3) % RngMod

\* The draws made so far, in order: <<generator, what for, how many in a row>>.
Logged(log, who, label) ==
    IF Len(log) > 0 /\ log[Len(log)][1] = who /\ log[Len(log)][2] = label
    THEN [log EXCEPT ![Len(log)] = <<who, label, @[3] + 1>>]
    ELSE Append(log, <<who, label, 1>>)

\* A store of generators: st[who] is the state of generator `who`.
\* One draw below n from generator `who`: the value and the store after it.
RandBelow(g, who, n, label) ==
    LET s2 == RngNext(g.st[who])
    IN  [v |-> (s2 \div 2) % n,
         g |-> [st |-> [g.st EXCEPT ![who] = s2],
                log |-> Logged(g.log, who, label)]]

\* who.randint(a, b), a <= b
RandInt(g, who, a, b, label) ==
    LET d == RandBelow(g, who, b - a + 1, label)
    IN  [v |-> a + d.v, g |-> d.g]

\* who.uniform(a, b) = a + (b - a) * who.random(), in tenths
Uniform(g, who, a, b, label) ==
    LET d == RandBelow(g, who, Max(a - b, b - a) + 1, label)
    IN  [v |-> IF a <= b THEN a + d.v ELSE a - d.v, g |-> d.g]

\* x[i] takes the value of x[j], and x[j] keeps it
Swap_Overwrite(x, i, j) == [x EXCEPT ![i] = x[j]]

Swap(x, i, j) == [x EXCEPT ![i] = x[j], ![j] = x[i]]

\* who.shuffle(x): for i in reversed(range(1, len(x))): j = randbelow(i + 1);
\* x[i], x[j] = x[j], x[i].  ShuffleFrom does the steps i, i-1, ..., 1
\* (0-based i; the sequence is 1-based).
RECURSIVE ShuffleFrom(_, _, _, _, _)
ShuffleFrom(g, who, x, i, label) ==
    IF i < 1 \/ Len(x) < 2 THEN [v |-> x, g |-> g]
    ELSE LET d == RandBelow(g, who, i + 1, label)
         IN  ShuffleFrom(d.g, who, Swap(x, i + 1, d.v + 1), i - 1, label)

\* the list is left as it is and no draw is made
Shuffle_NoDraw(g, who, x, label) == [v |-> x, g |-> g]

Shuffle(g, who, x, label) == ShuffleFrom(g, who, x, Len(x) - 1, label)

----------------------------------------------------------------------------
(* choose_random_tile_position *)

NoPosition == [raised |-> FALSE, left |-> 0, top |-> 0, center_x |-> 0, center_y |-> 0]

\* _ensure_positive(value, name) raises ValueError
EnsurePositiveRaises(value) == value <= 0

TileTooLarge(img_w, img_h, tile_w, tile_h) == tile_w > img_w \/ tile_h > img_h

\* the draws range over the whole image
SamplePosition_NoMargin(g, who, img_w, img_h, tile_w, tile_h) ==
    LET l == RandInt(g, who, 0, img_w, "left")
        t == RandInt(l.g, who, 0, img_h, "top")
    IN  [pos |-> [raised |-> FALSE, left |-> l.v, top |-> t.v,
                  center_x |-> l.v + (tile_w \div 2),
                  center_y |-> t.v + (tile_h \div 2)],
         g |-> t.g]

\* the centers are rounded up: left + (tile_w + 1) // 2
SamplePosition_CeilCenter(g, who, img_w, img_h, tile_w, tile_h) ==
    LET l == RandInt(g, who, 0, Max(img_w - tile_w, 0), "left")
        t == RandInt(l.g, who, 0, Max(img_h - tile_h, 0), "top")
    IN  [pos |-> [raised |-> img_w < tile_w \/ img_h < tile_h,
                  left |-> l.v, top |-> t.v,
                  center_x |-> l.v + ((tile_w + 1) \div 2),
                  center_y |-> t.v + ((tile_h + 1) \div 2)],
         g |-> t.g]

\* left = who.randint(0, img_w - tile_w); top = who.randint(0, img_h - tile_h)
\* and the centers by floor division; randint raises on an empty range.
SamplePosition(g, who, img_w, img_h, tile_w, tile_h) ==
    LET max_left == img_w - tile_w
        max_top == img_h - tile_h
    IN  IF max_left < 0 THEN [pos |-> [NoPosition EXCEPT !.raised = TRUE], g |-> g]
        ELSE LET l == RandInt(g, who, 0, max_left, "left")
             IN  IF max_top < 0
                 THEN [pos |-> [NoPosition EXCEPT !.raised = TRUE], g |-> l.g]
                 ELSE LET t == RandInt(l.g, who, 0, max_top, "top")
                      IN  [pos |-> [raised |-> FALSE, left |-> l.v, top |-> t.v,
                                    center_x |-> l.v + (tile_w \div 2),
                                    center_y |-> t.v + (tile_h \div 2)],
                           g |-> t.g]

\* tiler_toolkit.choose_random_tile_position(img_w, img_h, tile_w, tile_h):
\* it is given no generator and draws from the module-level one.
choose_random_tile_position(g, img_w, img_h, tile_w, tile_h) ==
    IF \/ EnsurePositiveRaises(tile_w) \/ EnsurePositiveRaises(tile_h)
       \/ TileTooLarge(img_w, img_h, tile_w, tile_h)
    THEN [pos |-> [NoPosition EXCEPT !.raised = TRUE], g |-> g]
    ELSE SamplePosition(g, "ambient", img_w, img_h, tile_w, tile_h)

\* the position is drawn from the module-level generator
choose_random_tile_position_rng_Ambient(g, rng, img_w, img_h, tile_w, tile_h) ==
    SamplePosition(g, "ambient", img_w, img_h, tile_w, tile_h)

\* tiler-test-05 choose_random_tile_position(rng, img_w, img_h, tile_w, tile_h)
choose_random_tile_position_rng(g, rng, img_w, img_h, tile_w, tile_h) ==
    IF TileTooLarge(img_w, img_h, tile_w, tile_h)
    THEN [pos |-> [NoPosition EXCEPT !.raised = TRUE], g |-> g]
    ELSE SamplePosition(g, rng, img_w, img_h, tile_w, tile_h)

----------------------------------------------------------------------------
(* paste_with_center / paste_opaque_with_center *)

ClippedEmpty_Never(src_left, src_top, src_right, src_bottom) == FALSE

ClippedEmpty_OffByOne(src_left, src_top, src_right, src_bottom) ==
    src_left + 1 >= src_right \/ src_top + 1 >= src_bottom

\* The early return of the paste: the clipped source region is empty.
ClippedEmpty(src_left, src_top, src_right, src_bottom) ==
    src_left >= src_right \/ src_top >= src_bottom

ClipHigh_NoClip(paste_at, src_len, dest_len) == src_len

\* Where the source is clipped on the right / bottom edge.
ClipHigh(paste_at, src_len, dest_len) ==
    IF paste_at + src_len > dest_len
    THEN src_len - ((paste_at + src_len) - dest_len)
    ELSE src_len

\* the source is read from its first column / row also when clipped
ClipLow_SrcFromZero(paste_at) ==
    IF paste_at < 0 THEN <<0, 0>> ELSE <<0, paste_at>>

\* Where the source is clipped on the left / top edge: <<src start, dst start>>.
ClipLow(paste_at) ==
    IF paste_at < 0 THEN <<-paste_at, 0>> ELSE <<0, paste_at>>

\* dest.paste(src_crop, (dst_left, dst_top), mask): the pixels of the box it
\* is asked to write (`written`), and the raster after it.  With a mask (an
\* RGBA source when masked is allowed) only pixels of non-zero alpha land.
PasteWithCenter(dest, src, center_x, center_y, useMask) ==
    LET dest_w == dest.w
        dest_h == dest.h
        src_w == src.w
        src_h == src.h
        paste_x == center_x - (src_w \div 2)
        paste_y == center_y - (src_h \div 2)
        lx == ClipLow(paste_x)
        ly == ClipLow(paste_y)
        src_left == lx[1]
        dst_left == lx[2]
        src_top == ly[1]
        dst_top == ly[2]
        src_right == ClipHigh(paste_x, src_w, dest_w)
        src_bottom == ClipHigh(paste_y, src_h, dest_h)
        box == <<src_left, src_top, src_right, src_bottom>>
        geo == [paste_x |-> paste_x, paste_y |-> paste_y, srcBox |-> box,
                dst_left |-> dst_left, dst_top |-> dst_top]
    IN  IF ClippedEmpty(src_left, src_top, src_right, src_bottom)
        THEN [dest |-> dest, performed |-> FALSE, raised |-> FALSE,
              written |-> {}, geo |-> geo]
        ELSE IF CropRaises(box)
        THEN [dest |-> dest, performed |-> FALSE, raised |-> TRUE,
              written |-> {}, geo |-> geo]
        ELSE
          LET cw == src_right - src_left
              ch == src_bottom - src_top
              written == {<<dst_left + i, dst_top + j>> :
                            i \in 0..(cw - 1), j \in 0..(ch - 1)}
              masked == useMask /\ src.mode = "RGBA"
              lands == ~masked \/ src.alpha > 0
              srcAt(c) == <<c[1] - dst_left + src_left, c[2] - dst_top + src_top>>
              px == [c \in DOMAIN dest.px |->
                        IF c \in written /\ lands /\ srcAt(c) \in DOMAIN src.px
                        THEN src.px[srcAt(c)] ELSE dest.px[c]]
          IN  [dest |-> [dest EXCEPT !.px = px], performed |-> TRUE,
               raised |-> FALSE, written |-> written, geo |-> geo]

\* tiler_toolkit.paste_with_center: an RGBA source is its own mask.
paste_with_center(dest, src, center_x, center_y) ==
    PasteWithCenter(dest, src, center_x, center_y, TRUE)

\* tiler-test-05 paste_opaque_with_center: a flat overwrite.
paste_opaque_with_center(dest, src, center_x, center_y) ==
    PasteWithCenter(dest, src, center_x, center_y, FALSE)

----------------------------------------------------------------------------
(* crop_and_scale_tile, flatten_opaque *)

\* int(round(n / d)) for d > 0: Python rounds halves to even
RoundDiv(n, d) ==
    LET q == n \div d
        r == n % d
    IN  IF 2 * r < d THEN q
        ELSE IF 2 * r > d THEN q + 1
        ELSE IF q % 2 = 0 THEN q ELSE q + 1

\* a scale given in tenths, in millionths
Tenths(scale) == scale * 100000

\* the product is truncated, not rounded
ScaledLen_Truncated(tile_len, scale) == Max(1, (tile_len * scale) \div 1000000)

\* max(1, int(round(tile_len * scale))), scale in millionths
ScaledLen(tile_len, scale) == Max(1, RoundDiv(tile_len * scale, 1000000))

\* crop_and_scale_tile(src_img, left, top, tile_w, tile_h, scale), scale in
\* millionths: the crop and the resize keep the mode (and alpha) of the source.
crop_and_scale_tile(src_mode, src_alpha, left, top, tile_w, tile_h, scale) ==
    TileImage(ScaledLen(tile_w, scale), ScaledLen(tile_h, scale),
              src_mode, src_alpha, left, top, scale)

\* crop_and_scale_tile_from_src of the sequencer: the same crop and resize
crop_and_scale_tile_from_src(src_mode, src_alpha, left, top, tile_w, tile_h, scale) ==
    TileImage(ScaledLen(tile_w, scale), ScaledLen(tile_h, scale),
              src_mode, src_alpha, left, top, scale)

flatten_opaque_KeepOthers(img) ==
    IF img.mode = "RGBA"
    THEN [img EXCEPT !.mode = "RGB", !.alpha = 255]
    ELSE img

\* flatten_opaque(img, bg_color): an RGBA raster is pasted over a new RGB
\* background through its alpha; any other is converted to RGB.
flatten_opaque(img) ==
    IF img.mode = "RGBA"
    THEN [NewImage(img.w, img.h, "RGB") EXCEPT
            !.px = IF img.alpha > 0 THEN img.px ELSE @]
    ELSE [img EXCEPT !.mode = "RGB", !.alpha = 255]

\* whether a raster of this mode carries an alpha channel
HasAlpha(mode) == mode \in {"RGBA", "LA"}

----------------------------------------------------------------------------
(* build_single_tile, build_layered_tiles, build_animation_frames *)

\* list(range(n))
Range0(n) == [i \in 1..n |-> i - 1]

\* the placements are pasted in index order, whatever the layer order
RECURSIVE PasteInOrder_IndexOrder(_, _, _, _)
PasteInOrder_IndexOrder(canvas, placements, order, k) ==
    IF k > Len(placements) THEN canvas
    ELSE LET pl == placements[k]
             r == paste_with_center(canvas, pl.image, pl.center[1], pl.center[2])
         IN  PasteInOrder_IndexOrder(r.dest, placements, order, k + 1)

\* for idx in order: paste_with_center(canvas, placements[idx].image, center)
RECURSIVE PasteInOrder(_, _, _, _)
PasteInOrder(canvas, placements, order, k) ==
    IF k > Len(order) THEN canvas
    ELSE LET pl == placements[order[k] + 1]
             r == paste_with_center(canvas, pl.image, pl.center[1], pl.center[2])
         IN  PasteInOrder(r.dest, placements, order, k + 1)

\* for idx in order: paste_opaque_with_center(canvas, img of idx, center of idx)
RECURSIVE PasteOpaqueInOrder(_, _, _, _)
PasteOpaqueInOrder(canvas, placements, order, k) ==
    IF k > Len(order) THEN canvas
    ELSE LET pl == placements[order[k] + 1]
             r == paste_opaque_with_center(canvas, pl.image, pl.center[1], pl.center[2])
         IN  PasteOpaqueInOrder(r.dest, placements, order, k + 1)

\* The colour of a pixel of the transparent canvas of build_single_tile.
Clear == <<-2, -2, 0, 0, 0>>

NoOut == [boxes |-> <<>>, scales |-> <<>>, orders |-> <<>>, frames |-> <<>>,
          seeds |-> <<>>, raised |-> FALSE]

\* The generators of a run: the module-level one, the one the caller made
\* from the seed (or the frame's), and base_rng of build_animation_frames.
ToolkitGen(seed, ambient) ==
    [st |-> [ambient |-> ambient, rng |-> Random(seed), base |-> Random(seed)],
     log |-> <<>>]

ToolkitEntryPc(entry) ==
    IF entry = "single" THEN "single"
    ELSE IF entry = "layered" THEN "tiles"
    ELSE IF entry = "frame03" THEN "tiles03" ELSE "frame"

----------------------------------------------------------------------------
(* tiler-test-05: build_unique_orders, ease_smooth_sine and main's helpers *)

\* math.factorial(n)
RECURSIVE factorial(_)
factorial(n) == IF n <= 1 THEN 1 ELSE n * factorial(n - 1)

\* x without its k-th element
Without(x, k) == SubSeq(x, 1, k - 1) \o SubSeq(x, k + 1, Len(x))

RECURSIVE ConcatAll(_)
ConcatAll(ss) == IF ss = <<>> THEN <<>> ELSE Head(ss) \o ConcatAll(Tail(ss))

\* list(itertools.permutations(x)): in lexicographic order of positions
RECURSIVE permutations(_)
permutations(x) ==
    IF Len(x) = 0 THEN << <<>> >>
    ELSE ConcatAll([k \in 1..Len(x) |->
            LET rest == permutations(Without(x, k))
            IN  [m \in 1..Len(rest) |-> <<x[k]>> \o rest[m]]])

\* the whole list, whatever n
Take_All(x, n) == x

\* all_perms[:frames]
Take(x, n) == SubSeq(x, 1, Min(n, Len(x)))

\* max_attempts = max(1000, frames * 50)
MaxAttempts(frames) == Max(MinAttempts, frames * AttemptsPerFrame)

\* A float of the animation: the number m / 1000 + e * 2^-54 / 1000, m in
\* thousandths and e, the part a double carries beyond them, in thousandths
\* of 2^-54.  Exact where m / 1000 is a dyadic number; the irrational
\* cosines are taken to the nearest 1/500 with e = 0.
Float(m, e) == [m |-> m, e |-> e]

\* float(n) of an int
FromInt(n) == Float(n * 1000, 0)

Abs(x) == IF x < 0 THEN -x ELSE x

\* the largest p = 125 * 2^j (1/8, 1/4, ... in thousandths) with p <= a
RECURSIVE BinadeBase(_, _)
BinadeBase(a, p) == IF 2 * p > a THEN p ELSE BinadeBase(a, 2 * p)

\* the spacing of the doubles at v, in thousandths of 2^-54: 2^(k-52) in the
\* binade 2^k <= |v| < 2^(k+1); a value just inside a power of two is in
\* the binade below it
Ulp(v) ==
    LET a == Abs(v.m)
        p == BinadeBase(a, 125)
        towardZero == (v.m > 0 /\ v.e < 0) \/ (v.m < 0 /\ v.e > 0)
    IN  IF a = p /\ towardZero THEN 2 * p ELSE 4 * p

\* the multiple of u nearest to e, the even one of two equally near
RoundToEven(e, u) ==
    LET q == e \div u
        r == e % u
    IN  IF 2 * r < u THEN q * u
        ELSE IF 2 * r > u THEN (q + 1) * u
        ELSE IF q % 2 = 0 THEN q * u ELSE (q + 1) * u

\* the double nearest to v: what every float operation returns
Fl(v) ==
    IF v.e = 0 \/ Abs(v.m) < 125 THEN v
    ELSE Float(v.m, RoundToEven(v.e, Ulp(v)))

FAdd(a, b) == Fl(Float(a.m + b.m, a.e + b.e))

FSub(a, b) == Fl(Float(a.m - b.m, a.e - b.e))

\* n * v, n an int
FMulInt(n, v) == Fl(Float(n * v.m, n * v.e))

\* 0.5 * v: exact
FHalf(v) == Float(v.m \div 2, v.e \div 2)

\* int(round(v)): to the nearest integer, a half to the even one
RoundFloat(v) ==
    IF v.m % 1000 = 500 /\ v.e # 0
    THEN IF v.e > 0 THEN (v.m \div 1000) + 1 ELSE v.m \div 1000
    ELSE RoundDiv(v.m, 1000)

\* math.cos(math.pi * t) for t = tnum / tden, tden up to 5, as the doubles
\* give it: math.pi is below pi, so cos(math.pi * 0.5) is 6.12e-17 and not 0,
\* cos(math.pi / 3) is 0.5000000000000001 and cos(2 * math.pi / 3) is
\* -0.4999999999999998
CosPiTable ==
    << <<Float(1000, 0), Float(-1000, 0)>>,
       <<Float(1000, 0), Float(0, 1103), Float(-1000, 0)>>,
       <<Float(1000, 0), Float(500, 2000), Float(-500, 4000), Float(-1000, 0)>>,
       <<Float(1000, 0), Float(708, 0), Float(0, 1103), Float(-708, 0),
         Float(-1000, 0)>>,
       <<Float(1000, 0), Float(810, 0), Float(310, 0), Float(-310, 0),
         Float(-810, 0), Float(-1000, 0)>> >>

CosPi(tnum, tden) == CosPiTable[tden][tnum + 1]

\* an ease of 2 at every time
ease_smooth_sine_Twice(tnum, tden) == FromInt(2)

\* ease_smooth_sine(t) = 0.5 * (1 - math.cos(math.pi * t)), t = tnum / tden
ease_smooth_sine(tnum, tden) == FHalf(FSub(FromInt(1), CosPi(tnum, tden)))

\* flatten_tile_to_opaque(tile, bg_color) of the sequencer
flatten_tile_to_opaque(tile) == flatten_opaque(tile)

FillWithShuffles_Skip(g, who, orders, n, frames) == [v |-> orders, g |-> g]

\* while len(orders) < frames: cand = list(range(n)); rng.shuffle(cand); orders.append(cand)
RECURSIVE FillWithShuffles(_, _, _, _, _)
FillWithShuffles(g, who, orders, n, frames) ==
    IF Len(orders) >= frames THEN [v |-> orders, g |-> g]
    ELSE LET sh == Shuffle(g, who, Range0(n), "fill")
         IN  FillWithShuffles(sh.g, who, Append(orders, sh.v), n, frames)

\* a tile of the allocator harness, which reads only len(tiles)
NoTile == [index |-> 0, left |-> 0, top |-> 0, tile_w |-> 1, tile_h |-> 1,
           base_center |-> <<0, 0>>, base_scale |-> 10,
           static_img |-> NewImage(1, 1, "RGB"), orig_box |-> <<0, 0, 1, 1>>]

\* the orders are drawn one by one, each a fresh shuffle
EnumeratedOrders_Resample(g, who, tiles_n, frames) ==
    FillWithShuffles(g, who, <<>>, tiles_n, frames)

\* build_unique_orders, enumerating: all_perms = list(permutations(range(n)));
\* rng.shuffle(all_perms); orders = all_perms[:frames]
EnumeratedOrders(g, who, tiles_n, frames) ==
    LET sh == Shuffle(g, who, permutations(Range0(tiles_n)), "shuffle_perms")
    IN  [v |-> Take(sh.v, frames), g |-> sh.g]

NoAlloc == [path |-> "none", seen |-> {}, attempts |-> 0, returned |-> 0,
            warned |-> FALSE, fill_reported |-> FALSE]

\* the message is printed whatever args.verbose is
ShortfallReported_Always(n_orders, frames, verbose) == n_orders < frames

\* `if len(orders) < frames and verbose: print(...)` of build_unique_orders,
\* `if len(orders) < args.frames: if args.verbose: print(...)` of main
ShortfallReported(n_orders, frames, verbose) == n_orders < frames /\ verbose

\* The generators of a run of main(): master_rng = random.Random(args.seed),
\* the frame's frame_rng, and the module-level one.
SeqGen(seed, ambient) ==
    [st |-> [ambient |-> ambient, master |-> Random(seed), frame |-> 0],
     log |-> <<>>]

NoSeqOut == [tiles |-> <<>>, animate |-> <<>>, specs |-> <<>>, orders |-> <<>>,
             frames |-> <<>>]

----------------------------------------------------------------------------
(* The harnesses when not in use *)

NoGen == [st |-> [ambient |-> 0, rng |-> 0], log |-> <<>>]

NoPasteRes == [before |-> NewImage(1, 1, "RGB"), performed |-> FALSE,
               raised |-> FALSE, written |-> {}, which |-> "none",
               geo |-> [paste_x |-> 0, paste_y |-> 0, srcBox |-> <<0, 0, 0, 0>>,
                        dst_left |-> 0, dst_top |-> 0]]

\* the harness when it is not in use
SamplerOff ==
    <<"off", [img_w |-> 1, img_h |-> 1, tile_w |-> 1, tile_h |-> 1], NoGen,
      [pos |-> NoPosition, which |-> "none"]>>

\* the toolkit when it is not in use
ToolkitOff ==
    <<"off",
      [entry |-> "none", img_w |-> 1, img_h |-> 1, src_mode |-> "RGB", src_alpha |-> 255,
       tile_w |-> 1, tile_h |-> 1, tile_count |-> 1, frames |-> 1,
       min_scale |-> 10, max_scale |-> 10, seed |-> 0, background |-> TRUE],
      ToolkitGen(0, 0), <<>>, <<>>, NoOut, 1, NoOut>>

\* the sequencer when it is not in use
SeqOff ==
    <<"off",
      [img_w |-> 1, img_h |-> 1, src_alpha |-> 255, tile_w |-> 1, tile_h |-> 1,
       tiles |-> 1, frames |-> 1, animate_count |-> 0, unique |-> FALSE,
       min_scale |-> 10, max_scale |-> 10, seed |-> 0,
       offset_frac |-> 0, scale_delta_frac |-> 0, verbose |-> FALSE],
      SeqGen(0, 0), <<>>, <<>>, <<>>, <<>>, NoAlloc, <<>>, 1, NoSeqOut>>

\* the harness when it is not in use
PasteOff ==
    <<"off", NewImage(1, 1, "RGB"), NewImage(1, 1, "RGB"), <<0, 0>>, NoPasteRes>>

----------------------------------------------------------------------------
(* The sampler harness: one call of the sampler on every small input *)

SamplerInit ==
    /\ s_pc = "call"
    /\ s_args \in [img_w : 1..MaxImg, img_h : 1..MaxImg,
                    tile_w : 0..(MaxImg + 1), tile_h : 0..(MaxImg + 1)]
    /\ \E x \in RngStates :
          s_gen = [st |-> [ambient |-> RngMod - 1 - x, rng |-> x], log |-> <<>>]
    /\ s_res = [pos |-> NoPosition, which |-> "none"]
    /\ p_pc = PasteOff[1] /\ p_dest = PasteOff[2] /\ p_src = PasteOff[3]
    /\ p_center = PasteOff[4] /\ p_res = PasteOff[5]
    /\ t_pc = ToolkitOff[1] /\ t_cfg = ToolkitOff[2] /\ t_gen = ToolkitOff[3]
    /\ t_placements = ToolkitOff[4] /\ t_order = ToolkitOff[5] /\ t_out = ToolkitOff[6]
    /\ t_run = ToolkitOff[7] /\ t_first = ToolkitOff[8]
    /\ q_pc = SeqOff[1] /\ q_cfg = SeqOff[2] /\ q_gen = SeqOff[3]
    /\ q_tiles = SeqOff[4] /\ q_animate = SeqOff[5] /\ q_specs = SeqOff[6]
    /\ q_orders = SeqOff[7] /\ q_alloc = SeqOff[8] /\ q_frames = SeqOff[9]
    /\ q_run = SeqOff[10] /\ q_first = SeqOff[11]

\* choose_random_tile_position(img_w, img_h, tile_w, tile_h) of the toolkit
SampleToolkit ==
    /\ s_pc = "call"
    /\ LET r == choose_random_tile_position(s_gen, s_args.img_w, s_args.img_h,
                                            s_args.tile_w, s_args.tile_h)
       IN  /\ s_res' = [pos |-> r.pos, which |-> "toolkit"]
           /\ s_gen' = r.g
    /\ s_pc' = "done"
    /\ UNCHANGED <<s_args, pasteVars, toolkitVars, seqVars>>

\* choose_random_tile_position(rng, img_w, img_h, tile_w, tile_h) of the sequencer
SampleLegacy ==
    /\ s_pc = "call"
    /\ LET r == choose_random_tile_position_rng(s_gen, "rng", s_args.img_w, s_args.img_h,
                                                s_args.tile_w, s_args.tile_h)
       IN  /\ s_res' = [pos |-> r.pos, which |-> "legacy"]
           /\ s_gen' = r.g
    /\ s_pc' = "done"
    /\ UNCHANGED <<s_args, pasteVars, toolkitVars, seqVars>>

----------------------------------------------------------------------------
(* The paste harness: one call of the paste on every small input *)

PasteSources ==
    {TileImage(w, h, m[1], m[2], 0, 0, 10) :
        w \in 1..MaxSrc, h \in 1..MaxSrc,
        m \in {<<"RGB", 255>>, <<"RGBA", 255>>, <<"RGBA", 0>>}}

PasteDests == {NewImage(w, h, "RGB") : w \in 1..MaxDest, h \in 1..MaxDest}

PasteInit ==
    /\ p_pc = "call"
    /\ p_dest \in PasteDests
    /\ p_src \in PasteSources
    /\ p_center \in ((-Far)..(p_dest.w - 1 + Far)) \X ((-Far)..(p_dest.h - 1 + Far))
    /\ p_res = NoPasteRes
    /\ s_pc = SamplerOff[1] /\ s_args = SamplerOff[2] /\ s_gen = SamplerOff[3]
    /\ s_res = SamplerOff[4]
    /\ t_pc = ToolkitOff[1] /\ t_cfg = ToolkitOff[2] /\ t_gen = ToolkitOff[3]
    /\ t_placements = ToolkitOff[4] /\ t_order = ToolkitOff[5] /\ t_out = ToolkitOff[6]
    /\ t_run = ToolkitOff[7] /\ t_first = ToolkitOff[8]
    /\ q_pc = SeqOff[1] /\ q_cfg = SeqOff[2] /\ q_gen = SeqOff[3]
    /\ q_tiles = SeqOff[4] /\ q_animate = SeqOff[5] /\ q_specs = SeqOff[6]
    /\ q_orders = SeqOff[7] /\ q_alloc = SeqOff[8] /\ q_frames = SeqOff[9]
    /\ q_run = SeqOff[10] /\ q_first = SeqOff[11]

\* paste_with_center(dest, src, center_x, center_y) of the toolkit
PasteToolkit ==
    /\ p_pc = "call"
    /\ LET r == paste_with_center(p_dest, p_src, p_center[1], p_center[2])
       IN  /\ p_res' = [before |-> p_dest, performed |-> r.performed,
                        raised |-> r.raised, written |-> r.written,
                        which |-> "toolkit", geo |-> r.geo]
           /\ p_dest' = r.dest
    /\ p_pc' = "done"
    /\ UNCHANGED <<p_src, p_center, samplerVars, toolkitVars, seqVars>>

\* paste_opaque_with_center(dest, src, center_x, center_y) of the sequencer,
\* whose sources are flattened (opaque) tiles
PasteLegacy ==
    /\ p_pc = "call"
    /\ p_src.mode = "RGB"
    /\ LET r == paste_opaque_with_center(p_dest, p_src, p_center[1], p_center[2])
       IN  /\ p_res' = [before |-> p_dest, performed |-> r.performed,
                        raised |-> r.raised, written |-> r.written,
                        which |-> "legacy", geo |-> r.geo]
           /\ p_dest' = r.dest
    /\ p_pc' = "done"
    /\ UNCHANGED <<p_src, p_center, samplerVars, toolkitVars, seqVars>>

PasteNext == PasteToolkit \/ PasteLegacy

SpecPaste == PasteInit /\ [][PasteNext]_vars

SamplerNext == SampleToolkit \/ SampleLegacy

SpecSampler == SamplerInit /\ [][SamplerNext]_vars

----------------------------------------------------------------------------
(* The toolkit: a run of one of the builders, then the same run again *)

SrcKinds == {<<"RGB", 255>>, <<"RGBA", 255>>, <<"RGBA", 0>>, <<"LA", 0>>}

TileSizes == {sz \in (1..MaxTile) \X (1..MaxTile) : sz[2] <= sz[1]}

ScaleRanges == {<<MinScaleDefault, MinScaleDefault>>, <<MinScaleDefault, MaxScaleDefault>>}

\* scale ranges the spec calls invalid: min_scale <= 0, and min above max
BadScaleRanges == {<<0, 0>>, <<MaxScaleDefault, MinScaleDefault>>}

\* the arguments of a call: e is <<entry, tile_count, frames, background>>
ToolkitConfig(e, k, sz, sc, seed) ==
    [entry |-> e[1], img_w |-> MaxImg, img_h |-> MaxImg - 1,
     src_mode |-> k[1], src_alpha |-> k[2],
     tile_w |-> sz[1], tile_h |-> sz[2], tile_count |-> e[2], frames |-> e[3],
     min_scale |-> sc[1], max_scale |-> sc[2], seed |-> seed, background |-> e[4]]

\* calls with positive counts and a scale range 0 < min_scale <= max_scale
ValidToolkitConfigs ==
    {ToolkitConfig(e, k, sz, sc, seed) :
        e \in ({"single"} \X {1} \X {1} \X BOOLEAN)
              \cup ({"layered"} \X (1..MaxTiles) \X {1} \X {TRUE})
              \cup ({"animation"} \X (1..MaxTiles) \X (1..MaxFrames) \X {TRUE}),
        k \in SrcKinds, sz \in TileSizes, sc \in ScaleRanges, seed \in 0..MaxSeed}

\* calls with a scale range that is not positive or is inverted
InvalidScaleConfigs ==
    {ToolkitConfig(e, <<"RGBA", 255>>, sz, sc, 0) :
        e \in {<<"single", 1, 1, TRUE>>, <<"layered", 1, 1, TRUE>>,
               <<"animation", 1, 1, TRUE>>},
        sz \in TileSizes, sc \in BadScaleRanges}

\* calls with a tile count or a frame count of 0
InvalidCountConfigs ==
    {ToolkitConfig(e, <<"RGBA", 255>>, <<1, 1>>, <<MinScaleDefault, MaxScaleDefault>>, 0) :
        e \in {<<"layered", 0, 1, TRUE>>, <<"animation", 0, 1, TRUE>>,
               <<"animation", 1, 0, TRUE>>, <<"animation", 0, 0, TRUE>>}}

\* calls of generate_single_frame of tiler-test-03, whose source main has
\* converted to RGBA
Frame03Configs ==
    {ToolkitConfig(<<"frame03", n, 1, TRUE>>, k, sz,
                   <<MinScaleDefault, MaxScaleDefault>>, seed) :
        n \in 1..MaxTiles, k \in {<<"RGBA", 255>>, <<"RGBA", 0>>},
        sz \in TileSizes, seed \in 0..MaxSeed}

ToolkitConfigs ==
    ValidToolkitConfigs \cup InvalidScaleConfigs \cup InvalidCountConfigs
        \cup Frame03Configs

AmbientStates == 0..MaxAmbient

ToolkitInit ==
    /\ t_cfg \in ToolkitConfigs
    /\ t_pc = ToolkitEntryPc(t_cfg.entry)
    /\ \E a \in AmbientStates : t_gen = ToolkitGen(t_cfg.seed, a)
    /\ t_placements = <<>>
    /\ t_order = <<>>
    /\ t_out = NoOut
    /\ t_run = 1
    /\ t_first = NoOut
    /\ p_pc = PasteOff[1] /\ p_dest = PasteOff[2] /\ p_src = PasteOff[3]
    /\ p_center = PasteOff[4] /\ p_res = PasteOff[5]
    /\ s_pc = SamplerOff[1] /\ s_args = SamplerOff[2] /\ s_gen = SamplerOff[3]
    /\ s_res = SamplerOff[4]
    /\ q_pc = SeqOff[1] /\ q_cfg = SeqOff[2] /\ q_gen = SeqOff[3]
    /\ q_tiles = SeqOff[4] /\ q_animate = SeqOff[5] /\ q_specs = SeqOff[6]
    /\ q_orders = SeqOff[7] /\ q_alloc = SeqOff[8] /\ q_frames = SeqOff[9]
    /\ q_run = SeqOff[10] /\ q_first = SeqOff[11]

\* build_single_tile(src, tile_w, tile_h, min_scale, max_scale, background, rng)
BuildSingleTile ==
    /\ t_pc = "single"
    /\ LET c == t_cfg
           r == choose_random_tile_position(t_gen, c.img_w, c.img_h, c.tile_w, c.tile_h)
       IN  IF r.pos.raised
           THEN /\ t_pc' = "error"
                /\ t_gen' = r.g
                /\ t_out' = [t_out EXCEPT !.raised = TRUE]
           ELSE LET sc == Uniform(r.g, "rng", c.min_scale, c.max_scale, "scale")
                    tile == crop_and_scale_tile(c.src_mode, c.src_alpha, r.pos.left,
                                                r.pos.top, c.tile_w, c.tile_h, Tenths(sc.v))
                    blank == [NewImage(c.img_w, c.img_h, "RGBA") EXCEPT
                                !.alpha = 0, !.px = [x \in DOMAIN @ |-> Clear]]
                    canvas == paste_with_center(blank, tile, r.pos.center_x,
                                                r.pos.center_y).dest
                    final == [NewImage(c.img_w, c.img_h, "RGB") EXCEPT
                                !.px = [x \in DOMAIN @ |->
                                          IF canvas.px[x] = Clear THEN Bg ELSE canvas.px[x]]]
                IN  /\ t_pc' = "done"
                    /\ t_gen' = sc.g
                    /\ t_out' = [t_out EXCEPT
                          !.boxes = Append(@, <<r.pos.left, r.pos.top,
                                                r.pos.left + c.tile_w, r.pos.top + c.tile_h>>),
                          !.scales = Append(@, sc.v),
                          !.frames = Append(@, IF c.background THEN final ELSE canvas)]
    /\ UNCHANGED <<t_cfg, t_placements, t_order, t_run, t_first, pasteVars, samplerVars, seqVars>>

\* build_layered_tiles: one turn of `for idx in range(tile_count)`
LayeredSampleTile ==
    /\ t_pc = "tiles"
    /\ Len(t_placements) < t_cfg.tile_count
    /\ LET c == t_cfg
           r == choose_random_tile_position(t_gen, c.img_w, c.img_h, c.tile_w, c.tile_h)
       IN  IF r.pos.raised
           THEN /\ t_pc' = "error"
                /\ t_gen' = r.g
                /\ t_out' = [t_out EXCEPT !.raised = TRUE]
                /\ UNCHANGED t_placements
           ELSE LET sc == Uniform(r.g, "rng", c.min_scale, c.max_scale, "scale")
                    tile == crop_and_scale_tile(c.src_mode, c.src_alpha, r.pos.left,
                                                r.pos.top, c.tile_w, c.tile_h, Tenths(sc.v))
                    box == <<r.pos.left, r.pos.top,
                             r.pos.left + c.tile_w, r.pos.top + c.tile_h>>
                IN  /\ t_pc' = "tiles"
                    /\ t_gen' = sc.g
                    /\ t_placements' = Append(t_placements,
                          [image |-> flatten_opaque(tile),
                           center |-> <<r.pos.center_x, r.pos.center_y>>,
                           scale |-> sc.v, box |-> box])
                    /\ t_out' = [t_out EXCEPT !.boxes = Append(@, box),
                                              !.scales = Append(@, sc.v)]
    /\ UNCHANGED <<t_cfg, t_order, t_run, t_first, pasteVars, samplerVars, seqVars>>

\* build_layered_tiles: order = list(range(tile_count)); rng.shuffle(order)
LayeredShuffle ==
    /\ t_pc = "tiles"
    /\ Len(t_placements) = t_cfg.tile_count
    /\ LET sh == Shuffle(t_gen, "rng", Range0(t_cfg.tile_count), "shuffle")
       IN  /\ t_order' = sh.v
           /\ t_gen' = sh.g
           /\ t_out' = [t_out EXCEPT !.orders = Append(@, sh.v)]
    /\ t_pc' = "paint"
    /\ UNCHANGED <<t_cfg, t_placements, t_run, t_first, pasteVars, samplerVars, seqVars>>

\* build_layered_tiles: the canvas, the pastes in layer order, and the return;
\* in build_animation_frames, result.append(frame) and the next frame
LayeredPaint ==
    /\ t_pc = "paint"
    /\ LET canvas == PasteInOrder(NewImage(t_cfg.img_w, t_cfg.img_h, "RGB"),
                                  t_placements, t_order, 1)
           frames == Append(t_out.frames, canvas)
       IN  /\ t_out' = [t_out EXCEPT !.frames = frames]
           /\ t_pc' = IF t_cfg.entry = "animation" /\ Len(frames) < t_cfg.frames
                      THEN "frame" ELSE "done"
    /\ UNCHANGED <<t_cfg, t_gen, t_placements, t_order, t_run, t_first,
                   pasteVars, samplerVars, seqVars>>

\* build_animation_frames: frame_seed = base_rng.randint(0, 2**63 - 1);
\* frame_rng = random.Random(frame_seed); build_layered_tiles(..., rng=frame_rng)
AnimationFrameSeed ==
    /\ t_pc = "frame"
    /\ Len(t_out.frames) < t_cfg.frames
    /\ LET fs == RandInt(t_gen, "base", 0, RngMod - 1, "frame_seed")
       IN  /\ t_gen' = [fs.g EXCEPT !.st.rng = Random(fs.v)]
           /\ t_out' = [t_out EXCEPT !.seeds = Append(@, fs.v)]
    /\ t_placements' = <<>>
    /\ t_order' = <<>>
    /\ t_pc' = "tiles"
    /\ UNCHANGED <<t_cfg, t_run, t_first, pasteVars, samplerVars, seqVars>>

\* build_animation_frames: `for fi in range(frames)` has nothing to do, and
\* the empty result is returned
AnimationNoFrames ==
    /\ t_pc = "frame"
    /\ t_cfg.frames <= 0
    /\ t_pc' = "done"
    /\ UNCHANGED <<t_cfg, t_gen, t_placements, t_order, t_out, t_run, t_first,
                   pasteVars, samplerVars, seqVars>>

\* tiler-test-03 generate_single_frame: one turn of `for i in range(tiles_count)`;
\* its helpers are those of tiler-test-05, statement for statement
GenerateSingleFrameTile ==
    /\ t_pc = "tiles03"
    /\ Len(t_placements) < t_cfg.tile_count
    /\ LET c == t_cfg
           r == choose_random_tile_position_rng(t_gen, "rng", c.img_w, c.img_h,
                                                c.tile_w, c.tile_h)
       IN  IF r.pos.raised
           THEN /\ t_pc' = "error"
                /\ t_gen' = r.g
                /\ t_out' = [t_out EXCEPT !.raised = TRUE]
                /\ UNCHANGED t_placements
           ELSE LET sc == Uniform(r.g, "rng", c.min_scale, c.max_scale, "scale")
                    tile_resized == crop_and_scale_tile_from_src(c.src_mode, c.src_alpha,
                                        r.pos.left, r.pos.top, c.tile_w, c.tile_h,
                                        Tenths(sc.v))
                    box == <<r.pos.left, r.pos.top,
                             r.pos.left + c.tile_w, r.pos.top + c.tile_h>>
                IN  /\ t_pc' = "tiles03"
                    /\ t_gen' = sc.g
                    /\ t_placements' = Append(t_placements,
                          [image |-> flatten_tile_to_opaque(tile_resized),
                           center |-> <<r.pos.center_x, r.pos.center_y>>,
                           scale |-> sc.v, box |-> box])
                    /\ t_out' = [t_out EXCEPT !.boxes = Append(@, box),
                                              !.scales = Append(@, sc.v)]
    /\ UNCHANGED <<t_cfg, t_order, t_run, t_first, pasteVars, samplerVars, seqVars>>

\* generate_single_frame: order = list(range(len(tiles))); rng.shuffle(order)
GenerateSingleFrameShuffle ==
    /\ t_pc = "tiles03"
    /\ Len(t_placements) = t_cfg.tile_count
    /\ LET sh == Shuffle(t_gen, "rng", Range0(Len(t_placements)), "shuffle")
       IN  /\ t_order' = sh.v
           /\ t_gen' = sh.g
           /\ t_out' = [t_out EXCEPT !.orders = Append(@, sh.v)]
    /\ t_pc' = "paint03"
    /\ UNCHANGED <<t_cfg, t_placements, t_run, t_first, pasteVars, samplerVars, seqVars>>

\* generate_single_frame: the canvas, the pastes in layer order, the return
GenerateSingleFramePaint ==
    /\ t_pc = "paint03"
    /\ LET canvas == PasteOpaqueInOrder(NewImage(t_cfg.img_w, t_cfg.img_h, "RGB"),
                                        t_placements, t_order, 1)
       IN  t_out' = [t_out EXCEPT !.frames = Append(@, canvas)]
    /\ t_pc' = "done"
    /\ UNCHANGED <<t_cfg, t_gen, t_placements, t_order, t_run, t_first,
                   pasteVars, samplerVars, seqVars>>

\* the same call again, in a new process: same seed, same arguments
ToolkitRerun ==
    /\ t_pc \in {"done", "error"}
    /\ t_run = 1
    /\ t_run' = 2
    /\ t_first' = t_out
    /\ t_out' = NoOut
    /\ \E a \in AmbientStates : t_gen' = ToolkitGen(t_cfg.seed, a)
    /\ t_placements' = <<>>
    /\ t_order' = <<>>
    /\ t_pc' = ToolkitEntryPc(t_cfg.entry)
    /\ UNCHANGED <<t_cfg, pasteVars, samplerVars, seqVars>>

ToolkitNext ==
    \/ BuildSingleTile
    \/ LayeredSampleTile
    \/ LayeredShuffle
    \/ LayeredPaint
    \/ AnimationFrameSeed
    \/ AnimationNoFrames
    \/ GenerateSingleFrameTile
    \/ GenerateSingleFrameShuffle
    \/ GenerateSingleFramePaint
    \/ ToolkitRerun

SpecToolkit == ToolkitInit /\ [][ToolkitNext]_vars

----------------------------------------------------------------------------
(* The sequencer: a run of main() of tiler-test-05, then the same run again *)

SeqConfigs ==
    {[img_w |-> MaxImg, img_h |-> MaxImg - 1, src_alpha |-> 255,
      tile_w |-> sz, tile_h |-> sz, tiles |-> n, frames |-> f,
      animate_count |-> a, unique |-> u,
      min_scale |-> MinScaleDefault, max_scale |-> MaxScaleDefault, seed |-> seed,
      offset_frac |-> OffsetFrac, scale_delta_frac |-> ScaleDeltaFracDefault,
      verbose |-> v] :
        sz \in 1..MaxTile, n \in 1..MaxTiles, f \in 1..MaxFrames,
        a \in 0..MaxTiles, u \in BOOLEAN, seed \in 0..MaxSeed, v \in BOOLEAN}

\* the first run starts from state 0 of the module-level generator, the
\* second from any state
SeqInit ==
    /\ q_cfg \in {c \in SeqConfigs : c.animate_count <= c.tiles}
    /\ q_pc = "validate"
    /\ q_gen = SeqGen(q_cfg.seed, 0)
    /\ q_tiles = <<>>
    /\ q_animate = <<>>
    /\ q_specs = <<>>
    /\ q_orders = <<>>
    /\ q_alloc = NoAlloc
    /\ q_frames = <<>>
    /\ q_run = 1
    /\ q_first = NoSeqOut
    /\ p_pc = PasteOff[1] /\ p_dest = PasteOff[2] /\ p_src = PasteOff[3]
    /\ p_center = PasteOff[4] /\ p_res = PasteOff[5]
    /\ s_pc = SamplerOff[1] /\ s_args = SamplerOff[2] /\ s_gen = SamplerOff[3]
    /\ s_res = SamplerOff[4]
    /\ t_pc = ToolkitOff[1] /\ t_cfg = ToolkitOff[2] /\ t_gen = ToolkitOff[3]
    /\ t_placements = ToolkitOff[4] /\ t_order = ToolkitOff[5] /\ t_out = ToolkitOff[6]
    /\ t_run = ToolkitOff[7] /\ t_first = ToolkitOff[8]

\* The allocator alone: build_unique_orders(tiles_n, frames, rng) and main's
\* fill, for every tiles_n, frames and generator state.
AllocInit ==
    /\ \E n \in (1..MaxAllocTiles) \cup {BigTiles}, f \in 1..MaxAllocFrames :
          /\ q_cfg = [SeqOff[2] EXCEPT !.tiles = n, !.frames = f, !.unique = TRUE,
                                       !.verbose = TRUE]
          /\ q_tiles = [i \in 1..n |-> NoTile]
    /\ q_pc = "orders"
    /\ \E x \in RngStates : q_gen = [SeqGen(0, 0) EXCEPT !.st.master = x]
    /\ q_animate = <<>>
    /\ q_specs = <<>>
    /\ q_orders = <<>>
    /\ q_alloc = NoAlloc
    /\ q_frames = <<>>
    /\ q_run = 1
    /\ q_first = NoSeqOut
    /\ p_pc = PasteOff[1] /\ p_dest = PasteOff[2] /\ p_src = PasteOff[3]
    /\ p_center = PasteOff[4] /\ p_res = PasteOff[5]
    /\ s_pc = SamplerOff[1] /\ s_args = SamplerOff[2] /\ s_gen = SamplerOff[3]
    /\ s_res = SamplerOff[4]
    /\ t_pc = ToolkitOff[1] /\ t_cfg = ToolkitOff[2] /\ t_gen = ToolkitOff[3]
    /\ t_placements = ToolkitOff[4] /\ t_order = ToolkitOff[5] /\ t_out = ToolkitOff[6]
    /\ t_run = ToolkitOff[7] /\ t_first = ToolkitOff[8]

\* main: the argument checks, each a SystemExit
SeqValidate ==
    /\ q_pc = "validate"
    /\ LET a == q_cfg
           invalid == \/ a.tiles <= 0 \/ a.frames <= 0
                      \/ a.animate_count < 0 \/ a.animate_count > a.tiles
                      \/ a.min_scale <= 0 \/ a.max_scale <= 0
                      \/ a.min_scale > a.max_scale
                      \/ a.tile_w <= 0 \/ a.tile_h <= 0
       IN  q_pc' = IF invalid THEN "exit" ELSE "tiles"
    /\ UNCHANGED <<q_cfg, q_gen, q_tiles, q_animate, q_specs, q_orders, q_alloc,
                   q_frames, q_run, q_first, pasteVars, samplerVars, toolkitVars>>

\* generate_tiles_once: one turn of `for i in range(tiles_count)`
GenerateTile ==
    /\ q_pc = "tiles"
    /\ Len(q_tiles) < q_cfg.tiles
    /\ LET a == q_cfg
           r == choose_random_tile_position_rng(q_gen, "master", a.img_w, a.img_h,
                                                a.tile_w, a.tile_h)
       IN  IF r.pos.raised
           THEN /\ q_pc' = "error"
                /\ q_gen' = r.g
                /\ UNCHANGED q_tiles
           ELSE LET sc == Uniform(r.g, "master", a.min_scale, a.max_scale, "scale")
                    tile_resized == crop_and_scale_tile_from_src("RGBA", a.src_alpha, r.pos.left,
                                        r.pos.top, a.tile_w, a.tile_h, Tenths(sc.v))
                    tile == [index |-> Len(q_tiles), left |-> r.pos.left, top |-> r.pos.top,
                             tile_w |-> a.tile_w, tile_h |-> a.tile_h,
                             base_center |-> <<r.pos.center_x, r.pos.center_y>>,
                             base_scale |-> sc.v,
                             static_img |-> flatten_tile_to_opaque(tile_resized),
                             orig_box |-> <<r.pos.left, r.pos.top,
                                            r.pos.left + a.tile_w, r.pos.top + a.tile_h>>]
                IN  /\ q_tiles' = Append(q_tiles, tile)
                    /\ q_gen' = sc.g
                    /\ q_pc' = IF Len(q_tiles) + 1 = a.tiles THEN "select" ELSE "tiles"
    /\ UNCHANGED <<q_cfg, q_animate, q_specs, q_orders, q_alloc, q_frames, q_run,
                   q_first, pasteVars, samplerVars, toolkitVars>>

\* main: choose which tiles to animate
SelectAnimated ==
    /\ q_pc = "select"
    /\ IF q_cfg.animate_count > 0
       THEN LET sh == Shuffle(q_gen, "master", Range0(Len(q_tiles)), "select")
            IN  /\ q_animate' = Take(sh.v, q_cfg.animate_count)
                /\ q_gen' = sh.g
                /\ q_pc' = "specs"
       ELSE /\ q_animate' = <<>>
            /\ q_gen' = q_gen
            /\ q_pc' = "orders"
    /\ UNCHANGED <<q_cfg, q_tiles, q_specs, q_orders, q_alloc, q_frames, q_run,
                   q_first, pasteVars, samplerVars, toolkitVars>>

\* main: one turn of `for idx in animate_indices` (the animation targets)
AnimSpec ==
    /\ q_pc = "specs"
    /\ Len(q_specs) < Len(q_animate)
    /\ LET idx == q_animate[Len(q_specs) + 1]
           t == q_tiles[idx + 1]
           max_dx == RoundDiv(t.tile_w * q_cfg.offset_frac, 100)
           max_dy == RoundDiv(t.tile_h * q_cfg.offset_frac, 100)
           dx == RandInt(q_gen, "master", -max_dx, max_dx, "dx")
           dy == RandInt(dx.g, "master", -max_dy, max_dy, "dy")
           delta_frac == q_cfg.scale_delta_frac
           u == Uniform(dy.g, "master", -delta_frac, delta_frac, "scale_target")
       IN  /\ q_specs' = Append(q_specs,
                 [idx |-> idx, dx |-> dx.v, dy |-> dy.v,
                  scale_target |-> t.base_scale * (100 + u.v),
                  base_scale |-> t.base_scale])
           /\ q_gen' = u.g
           /\ q_pc' = IF Len(q_specs) + 1 = Len(q_animate) THEN "orders" ELSE "specs"
    /\ UNCHANGED <<q_cfg, q_tiles, q_animate, q_orders, q_alloc, q_frames, q_run,
                   q_first, pasteVars, samplerVars, toolkitVars>>

\* build_unique_orders, up to its choice: enumerate all permutations, shuffle
\* them and return the first `frames`; or go on to the random shuffles
BuildUniqueOrders ==
    /\ q_pc = "orders"
    /\ q_cfg.unique
    /\ LET tiles_n == Len(q_tiles)
           frames == q_cfg.frames
           total_perms == factorial(tiles_n)
       IN  IF frames <= total_perms /\ total_perms <= MaxEnum
           THEN LET en == EnumeratedOrders(q_gen, "master", tiles_n, frames)
                IN  /\ q_orders' = en.v
                    /\ q_gen' = en.g
                    /\ q_alloc' = [NoAlloc EXCEPT !.path = "enumerate",
                                                  !.returned = Len(en.v)]
                    /\ q_pc' = "fill"
           ELSE /\ q_orders' = <<>>
                /\ q_gen' = q_gen
                /\ q_alloc' = [NoAlloc EXCEPT !.path = "fallback"]
                /\ q_pc' = "fallback"
    /\ UNCHANGED <<q_cfg, q_tiles, q_animate, q_specs, q_frames, q_run, q_first,
                   pasteVars, samplerVars, toolkitVars>>

\* no candidate is taken for seen
AlreadySeen_Never(candidate, seen) == FALSE

\* build_unique_orders: `if tup in seen`
AlreadySeen(candidate, seen) == candidate \in seen

\* build_unique_orders: one turn of
\* `while len(orders) < frames and attempts < max_attempts`
FallbackAttempt ==
    /\ q_pc = "fallback"
    /\ Len(q_orders) < q_cfg.frames
    /\ q_alloc.attempts < MaxAttempts(q_cfg.frames)
    /\ LET sh == Shuffle(q_gen, "master", Range0(Len(q_tiles)), "attempt")
           candidate == sh.v
       IN  /\ q_gen' = sh.g
           /\ IF AlreadySeen(candidate, q_alloc.seen)
              THEN /\ q_alloc' = [q_alloc EXCEPT !.attempts = @ + 1]
                   /\ UNCHANGED q_orders
              ELSE /\ q_alloc' = [q_alloc EXCEPT !.attempts = @ + 1,
                                                 !.seen = @ \cup {candidate}]
                   /\ q_orders' = Append(q_orders, candidate)
    /\ q_pc' = "fallback"
    /\ UNCHANGED <<q_cfg, q_tiles, q_animate, q_specs, q_frames, q_run, q_first,
                   pasteVars, samplerVars, toolkitVars>>

\* build_unique_orders: the loop is over; the warning, and the return
FallbackReturn ==
    /\ q_pc = "fallback"
    /\ ~(Len(q_orders) < q_cfg.frames /\ q_alloc.attempts < MaxAttempts(q_cfg.frames))
    /\ q_alloc' = [q_alloc EXCEPT
                      !.warned = ShortfallReported(Len(q_orders), q_cfg.frames,
                                                   q_cfg.verbose),
                      !.returned = Len(q_orders)]
    /\ q_pc' = "fill"
    /\ UNCHANGED <<q_cfg, q_gen, q_tiles, q_animate, q_specs, q_orders, q_frames,
                   q_run, q_first, pasteVars, samplerVars, toolkitVars>>

\* main: fill the frames build_unique_orders left without an order
FillOrders ==
    /\ q_pc = "fill"
    /\ LET fl == FillWithShuffles(q_gen, "master", q_orders, Len(q_tiles), q_cfg.frames)
       IN  /\ q_orders' = fl.v
           /\ q_gen' = fl.g
    /\ q_alloc' = [q_alloc EXCEPT
                      !.fill_reported = ShortfallReported(Len(q_orders), q_cfg.frames,
                                                          q_cfg.verbose)]
    /\ q_pc' = "frames"
    /\ UNCHANGED <<q_cfg, q_tiles, q_animate, q_specs, q_frames, q_run,
                   q_first, pasteVars, samplerVars, toolkitVars>>

\* main: one turn of the simple per-frame shuffle, from a derived frame seed
SimpleOrder ==
    /\ q_pc = "orders"
    /\ ~q_cfg.unique
    /\ LET fs == RandInt(q_gen, "master", 0, RngMod - 1, "frame_seed")
           seeded == [fs.g EXCEPT !.st.frame = Random(fs.v)]
           sh == Shuffle(seeded, "frame", Range0(Len(q_tiles)), "shuffle")
       IN  /\ q_orders' = Append(q_orders, sh.v)
           /\ q_gen' = sh.g
           /\ q_pc' = IF Len(q_orders) + 1 = q_cfg.frames THEN "frames" ELSE "orders"
    /\ UNCHANGED <<q_cfg, q_tiles, q_animate, q_specs, q_alloc, q_frames, q_run,
                   q_first, pasteVars, samplerVars, toolkitVars>>

\* the time runs to frames, not to frames - 1
NormalizedTime_OverFrames(fi, frames) == <<fi, frames>>

\* main: tt = 0.0 if args.frames == 1 else fi / (args.frames - 1), as
\* <<numerator, denominator>>
NormalizedTime(fi, frames) ==
    IF frames = 1 THEN <<0, 1>> ELSE <<fi, frames - 1>>

\* every tile is pasted as sampled, one pixel further right each frame
FrameEntries_StaticDrifts(cfg, tiles, specs, fi) ==
    [k \in 1..Len(tiles) |->
        [image |-> tiles[k].static_img,
         center |-> <<tiles[k].base_center[1] + fi, tiles[k].base_center[2]>>,
         scale |-> Tenths(tiles[k].base_scale),
         animated |-> FALSE, tt |-> <<0, 1>>, eased |-> FromInt(0),
         box |-> tiles[k].orig_box]]

\* main: the image and center of every tile at frame fi: the animated ones
\* are cropped and resized again at the eased scale and center, the others
\* keep static_img and base_center
FrameEntries(cfg, tiles, specs, fi) ==
    [k \in 1..Len(tiles) |->
        IF \E m \in 1..Len(specs) : specs[m].idx = k - 1
        THEN LET spec == specs[CHOOSE m \in 1..Len(specs) : specs[m].idx = k - 1]
                 t_tile == tiles[k]
                 tt == NormalizedTime(fi, cfg.frames)
                 eased == ease_smooth_sine(tt[1], tt[2])
                 cx == RoundFloat(FAdd(FromInt(t_tile.base_center[1]),
                                       FMulInt(spec.dx, eased)))
                 cy == RoundFloat(FAdd(FromInt(t_tile.base_center[2]),
                                       FMulInt(spec.dy, eased)))
                 scale == Tenths(t_tile.base_scale)
                          + (spec.scale_target - t_tile.base_scale * 100) * eased.m
                 img_resized == crop_and_scale_tile_from_src("RGBA", cfg.src_alpha,
                                    t_tile.left, t_tile.top, t_tile.tile_w,
                                    t_tile.tile_h, scale)
             IN  [image |-> flatten_tile_to_opaque(img_resized),
                  center |-> <<cx, cy>>, scale |-> scale,
                  animated |-> TRUE, tt |-> tt, eased |-> eased,
                  box |-> <<t_tile.left, t_tile.top, t_tile.left + t_tile.tile_w,
                            t_tile.top + t_tile.tile_h>>]
        ELSE [image |-> tiles[k].static_img, center |-> tiles[k].base_center,
              scale |-> Tenths(tiles[k].base_scale),
              animated |-> FALSE, tt |-> <<0, 1>>, eased |-> FromInt(0),
              box |-> tiles[k].orig_box]]

\* frame fi is painted on the canvas of the frame before it
FrameCanvas_Reused(frames, img_w, img_h) ==
    IF frames = <<>> THEN NewImage(img_w, img_h, "RGB")
    ELSE frames[Len(frames)].canvas

\* main: canvas = Image.new("RGB", (img_w, img_h), args.background), inside
\* the frame loop: the canvas a frame starts from, given the frames made
\* so far
FrameCanvas(frames, img_w, img_h) == NewImage(img_w, img_h, "RGB")

\* main: one turn of `for fi in range(args.frames)`: a new canvas, the tiles
\* pasted in the order of the frame, the canvas appended to the frames; after
\* the last one the GIF is saved
RenderFrame ==
    /\ q_pc = "frames"
    /\ Len(q_frames) < q_cfg.frames
    /\ LET fi == Len(q_frames)
           canvas == FrameCanvas(q_frames, q_cfg.img_w, q_cfg.img_h)
           entries == FrameEntries(q_cfg, q_tiles, q_specs, fi)
           order == q_orders[fi + 1]
       IN  q_frames' = Append(q_frames,
                              [canvas |-> PasteOpaqueInOrder(canvas, entries, order, 1),
                               entries |-> entries, order |-> order])
    /\ q_pc' = IF Len(q_frames) + 1 = q_cfg.frames THEN "done" ELSE "frames"
    /\ UNCHANGED <<q_cfg, q_gen, q_tiles, q_animate, q_specs, q_orders, q_alloc,
                   q_run, q_first, pasteVars, samplerVars, toolkitVars>>

\* what a run of main() produced
SeqOut ==
    [tiles |-> q_tiles, animate |-> q_animate, specs |-> q_specs,
     orders |-> q_orders, frames |-> q_frames]

\* The program is run a second time with the same arguments: a new process,
\* whose module-level generator is seeded by the system.
SeqRerun ==
    /\ q_pc = "done"
    /\ q_run = 1
    /\ q_run' = 2
    /\ q_first' = SeqOut
    /\ \E amb \in AmbientStates : q_gen' = SeqGen(q_cfg.seed, amb)
    /\ q_tiles' = <<>>
    /\ q_animate' = <<>>
    /\ q_specs' = <<>>
    /\ q_orders' = <<>>
    /\ q_alloc' = NoAlloc
    /\ q_frames' = <<>>
    /\ q_pc' = "validate"
    /\ UNCHANGED <<q_cfg, pasteVars, samplerVars, toolkitVars>>

SeqNext ==
    \/ SeqValidate
    \/ GenerateTile
    \/ SelectAnimated
    \/ AnimSpec
    \/ BuildUniqueOrders
    \/ FallbackAttempt
    \/ FallbackReturn
    \/ FillOrders
    \/ SimpleOrder
    \/ RenderFrame
    \/ SeqRerun

SpecSeq == SeqInit /\ [][SeqNext]_vars

AllocNext ==
    \/ BuildUniqueOrders
    \/ FallbackAttempt
    \/ FallbackReturn
    \/ FillOrders

SpecAlloc == AllocInit /\ [][AllocNext]_vars

----------------------------------------------------------------------------
(* Properties of the paste *)

\* The source rectangle as placed by the centering rule, and the destination.
PlacedRect ==
    LET paste_x == p_center[1] - (p_src.w \div 2)
        paste_y == p_center[2] - (p_src.h \div 2)
    IN  {<<x, y>> : x \in paste_x..(paste_x + p_src.w - 1),
                    y \in paste_y..(paste_y + p_src.h - 1)}

DestRect == Coords(p_dest.w, p_dest.h)

PasteOverlap == PlacedRect \cap DestRect # {}

\* The computed top-left corner (paste_x, paste_y) is no pixel of the destination.
CornerOutside ==
    <<p_center[1] - (p_src.w \div 2), p_center[2] - (p_src.h \div 2)>> \notin DestRect

CenterOutside == p_center \notin DestRect

DestUnmodified == p_dest = p_res.before

\* C5: for every destination size, source size and center, also far outside
\* the destination, the paste raises no error, and when it writes, the box
\* it writes lies inside the destination and the cropped source box inside
\* the source.
C5_PasteInsideDest ==
    p_pc = "done" =>
        /\ ~p_res.raised
        /\ p_res.written \subseteq DestRect
        /\ p_res.performed =>
            LET g == p_res.geo
                b == g.srcBox
            IN  /\ 0 <= g.dst_left /\ g.dst_left + (b[3] - b[1]) <= p_dest.w
                /\ 0 <= g.dst_top /\ g.dst_top + (b[4] - b[2]) <= p_dest.h
                /\ 0 <= b[1] /\ b[1] < b[3] /\ b[3] <= p_src.w
                /\ 0 <= b[2] /\ b[2] < b[4] /\ b[4] <= p_src.h

\* a paste centered outside the destination that still writes, clipped
C5_Witness ==
    /\ p_pc = "done" /\ p_res.performed /\ CenterOutside
    /\ p_res.geo.paste_x < 0
    /\ p_res.geo.paste_y + p_src.h > p_dest.h

\* C6 as stated: a corner (paste_x, paste_y) outside the destination leaves
\* the destination unmodified and raises no error.
C6_CornerOutsideUnmodified ==
    (p_pc = "done" /\ CornerOutside) => (DestUnmodified /\ ~p_res.raised)

\* C6 amended: a corner outside the destination, with the placed source
\* rectangle not reaching into the destination, leaves the destination
\* unmodified (nothing is pasted) and raises no error.
C6_OutsideNoOverlapUnmodified ==
    (p_pc = "done" /\ CornerOutside /\ ~PasteOverlap) =>
        (DestUnmodified /\ ~p_res.performed /\ ~p_res.raised)

C6_Witness == p_pc = "done" /\ CornerOutside /\ ~PasteOverlap

OpaqueSource == p_src.mode = "RGB" \/ p_src.alpha = 255

\* C18: after pasting an opaque source at center (cx, cy), with
\* paste_x = cx - src_w \div 2 and paste_y = cy - src_h \div 2, every
\* destination pixel (x, y) inside the placed rectangle equals the source
\* pixel (x - paste_x, y - paste_y) and every other destination pixel is
\* unchanged, whichever edges the source is clipped on.
C18_PixelExactPaste ==
    (p_pc = "done" /\ OpaqueSource) =>
        LET paste_x == p_center[1] - (p_src.w \div 2)
            paste_y == p_center[2] - (p_src.h \div 2)
        IN  \A c \in DestRect :
                IF c \in PlacedRect
                THEN p_dest.px[c] = p_src.px[<<c[1] - paste_x, c[2] - paste_y>>]
                ELSE p_dest.px[c] = p_res.before.px[c]

\* an opaque source larger than the destination, clipped on all four edges
\* at once
C18_Witness ==
    /\ p_pc = "done" /\ OpaqueSource /\ p_res.performed
    /\ p_res.geo.paste_x < 0 /\ p_res.geo.paste_y < 0
    /\ p_res.geo.paste_x + p_src.w > p_dest.w
    /\ p_res.geo.paste_y + p_src.h > p_dest.h
    /\ p_res.geo.srcBox[1] > 0 /\ p_res.geo.srcBox[3] < p_src.w

----------------------------------------------------------------------------
(* Properties of the sampler *)

SamplerValidArgs ==
    /\ 1 <= s_args.tile_w /\ s_args.tile_w <= s_args.img_w
    /\ 1 <= s_args.tile_h /\ s_args.tile_h <= s_args.img_h

\* C4: for every image size and every tile size with 1 <= tile_w <= W and
\* 1 <= tile_h <= H, the sampler (of the toolkit and of the sequencer)
\* returns a position with left >= 0, top >= 0, left + tile_w <= W and
\* top + tile_h <= H, the cases tile_w = W and tile_h = H included.
C4_Containment ==
    (s_pc = "done" /\ SamplerValidArgs) =>
        /\ ~s_res.pos.raised
        /\ s_res.pos.left >= 0
        /\ s_res.pos.top >= 0
        /\ s_res.pos.left + s_args.tile_w <= s_args.img_w
        /\ s_res.pos.top + s_args.tile_h <= s_args.img_h

\* a tile as wide as the image, sampled flush with the bottom edge
C4_Witness ==
    /\ s_pc = "done" /\ SamplerValidArgs /\ ~s_res.pos.raised
    /\ s_args.tile_w = s_args.img_w
    /\ s_res.pos.top > 0
    /\ s_res.pos.top + s_args.tile_h = s_args.img_h

C16_TwoDrawsOnGivenGenerator ==
    (s_pc = "done" /\ ~s_res.pos.raised) =>
        /\ s_gen.log = <<<<"rng", "left", 1>>, <<"rng", "top", 1>>>>
        /\ \E x \in RngStates :
              /\ s_gen.st.rng = RngNext(RngNext(x))
              /\ s_gen.st.ambient = RngMod - 1 - x

----------------------------------------------------------------------------
(* Properties of the toolkit builders *)

ToolkitBothDone == t_run = 2 /\ t_pc = "done"

\* C1: for a fixed seed and a fixed configuration, two full runs of a
\* toolkit builder yield the same sampled tile boxes, the same scales, the
\* same layer orders and the same output pixels.
C1_ToolkitDeterministic ==
    ToolkitBothDone =>
        /\ t_out.boxes = t_first.boxes
        /\ t_out.scales = t_first.scales
        /\ t_out.orders = t_first.orders
        /\ t_out.frames = t_first.frames

\* C3: every draw made while building a composite or an animation is taken
\* from the generator that was passed in or from one derived from it; the
\* module-level generator is neither read nor advanced.
C3_NoAmbientDraw ==
    \A k \in 1..Len(t_gen.log) : t_gen.log[k][1] # "ambient"

\* C8: flatten returns a raster without an alpha channel for every input
\* mode, so every tile stored in a placement and every canvas the layer
\* compositor returns is opaque.
C8_Opaque ==
    /\ \A k \in 1..Len(t_placements) :
          /\ ~HasAlpha(t_placements[k].image.mode)
          /\ t_placements[k].image.alpha = 255
    /\ t_cfg.entry \in {"layered", "animation"} =>
          \A k \in 1..Len(t_out.frames) :
              /\ ~HasAlpha(t_out.frames[k].mode)
              /\ t_out.frames[k].alpha = 255
              /\ \A c \in DOMAIN t_out.frames[k].px : t_out.frames[k].px[c] # Clear

\* a composite of tiles cut from a source with alpha that is not RGBA
C8_Witness ==
    /\ t_pc = "done" /\ t_cfg.entry = "layered"
    /\ t_cfg.src_mode = "LA"
    /\ Len(t_placements) = MaxTiles
    /\ Len(t_out.frames) = 1

\* what the draws of a log were made for, one entry per draw
RECURSIVE DrawLabels(_)
DrawLabels(log) ==
    IF log = <<>> THEN <<>>
    ELSE LET last == log[Len(log)]
         IN  DrawLabels(SubSeq(log, 1, Len(log) - 1)) \o [i \in 1..last[3] |-> last[2]]

\* the draws since the frame seed of the frame was drawn, or all of them
RECURSIVE SinceFrameSeed(_)
SinceFrameSeed(labels) ==
    IF labels = <<>> \/ labels[Len(labels)] = "frame_seed" THEN <<>>
    ELSE Append(SinceFrameSeed(SubSeq(labels, 1, Len(labels) - 1)), labels[Len(labels)])

\* left, top, scale for each of k tiles
TileLabels(k) ==
    [i \in 1..(3 * k) |-> IF i % 3 = 1 THEN "left" ELSE IF i % 3 = 2 THEN "top" ELSE "scale"]

\* a shuffle of n elements draws n - 1 times
ShuffleLabels(n) == [i \in 1..Max(n - 1, 0) |-> "shuffle"]

\* C19: in the layer compositor (build_layered_tiles, alone and for each
\* frame of an animation, and generate_single_frame) the draws are, for each
\* of the N tiles in index order, left, top and the scale, all N tiles
\* first, and only then the draws of the single shuffle of the layer order;
\* no shuffle draw is made before the last tile is sampled.
C19_TilesThenShuffle ==
    t_cfg.entry \in {"layered", "animation", "frame03"} =>
        /\ SinceFrameSeed(DrawLabels(t_gen.log))
              = TileLabels(Len(t_placements))
                \o (IF t_order # <<>> THEN ShuffleLabels(t_cfg.tile_count) ELSE <<>>)
        /\ t_order # <<>> => Len(t_placements) = t_cfg.tile_count
        /\ \A k \in 1..Len(t_placements) :
              t_placements[k].box = t_out.boxes[Len(t_out.boxes) - Len(t_placements) + k]

\* build_layered_tiles with two tiles: left, top, scale twice, then the
\* draw of the shuffle
C19_Witness ==
    /\ t_cfg.entry = "layered" /\ t_pc = "done" /\ t_cfg.tile_count = 2
    /\ DrawLabels(t_gen.log)
         = <<"left", "top", "scale", "left", "top", "scale", "shuffle">>

\* the rectangle a placement is pasted on, by the centering rule
PasteCorner(pl) ==
    <<pl.center[1] - (pl.image.w \div 2), pl.center[2] - (pl.image.h \div 2)>>

\* the pixels of the canvas a placement covers: its rectangle, clipped
Footprint(pl) ==
    LET o == PasteCorner(pl)
    IN  {c \in Coords(t_cfg.img_w, t_cfg.img_h) :
            /\ o[1] <= c[1] /\ c[1] < o[1] + pl.image.w
            /\ o[2] <= c[2] /\ c[2] < o[2] + pl.image.h}

\* the placement pasted k-th in the layer order
Layer(k) == t_placements[t_order[k] + 1]

\* the pixel of a placement that lands on pixel c of the canvas
PixelOn(pl, c) ==
    pl.image.px[<<c[1] - PasteCorner(pl)[1], c[2] - PasteCorner(pl)[2]>>]

\* the compositor has returned the canvas of t_placements and t_order
Composited ==
    /\ t_cfg.entry \in {"layered", "animation", "frame03"}
    /\ t_pc \in {"done", "frame"}
    /\ t_out.frames # <<>>

\* C20: in a composited canvas every pixel equals the pixel of the last
\* placement in the layer order whose clipped footprint covers it, and is
\* of the background colour when no placement covers it.
C20_LastCoveringPlacementWins ==
    Composited =>
        LET canvas == t_out.frames[Len(t_out.frames)]
        IN  /\ Len(t_order) = Len(t_placements)
            /\ \A c \in Coords(t_cfg.img_w, t_cfg.img_h) :
                  LET covering == {k \in 1..Len(t_order) : c \in Footprint(Layer(k))}
                  IN  IF covering = {} THEN canvas.px[c] = Bg
                      ELSE LET last == CHOOSE k \in covering :
                                           \A j \in covering : j <= k
                           IN  canvas.px[c] = PixelOn(Layer(last), c)

\* build_layered_tiles with two placements under layer order [1, 0]: on a
\* pixel both cover, where their pixels differ, placement 0 wins, and a
\* pixel neither covers is background
C20_Witness ==
    /\ Composited /\ t_cfg.entry \in {"layered", "animation"} /\ t_order = <<1, 0>>
    /\ LET canvas == t_out.frames[Len(t_out.frames)]
       IN  /\ \E c \in Footprint(t_placements[1]) \cap Footprint(t_placements[2]) :
                 /\ PixelOn(t_placements[1], c) # PixelOn(t_placements[2], c)
                 /\ canvas.px[c] = PixelOn(t_placements[1], c)
           /\ \E c \in Coords(t_cfg.img_w, t_cfg.img_h) :
                 /\ c \notin Footprint(t_placements[1]) \cup Footprint(t_placements[2])
                 /\ canvas.px[c] = Bg

\* the scale range of the call is not positive, or is inverted
InvalidScaleRange == t_cfg.min_scale <= 0 \/ t_cfg.min_scale > t_cfg.max_scale

\* a count of the call is not positive
InvalidCount == t_cfg.tile_count <= 0 \/ t_cfg.frames <= 0

\* C14: a scale range with min_scale <= 0 or min_scale > max_scale passed
\* to a compositing entry point, and a non-positive scale passed to the tile
\* renderer, is rejected before any tile is rendered: no tile is sampled
\* or stored, no canvas is returned, and no tile has a non-positive scale.
C14_InvalidScaleRejected ==
    /\ (t_pc # "off" /\ InvalidScaleRange) =>
          /\ t_pc # "done"
          /\ t_placements = <<>>
          /\ t_out.scales = <<>>
          /\ t_out.frames = <<>>
    /\ \A k \in 1..Len(t_out.scales) : t_out.scales[k] > 0

\* C15: a tile count or a frame count that is not positive is rejected
\* with an error before any canvas or frame is produced: the call never
\* returns a canvas or a list of frames.
C15_InvalidCountRejected ==
    (t_pc # "off" /\ InvalidCount) =>
        /\ t_pc # "done"
        /\ t_out.frames = <<>>

----------------------------------------------------------------------------
(* Properties of the animation sequencer *)

SeqBothDone == q_run = 2 /\ q_pc = "done"

\* C2: for a fixed seed and a fixed configuration, two full runs of the
\* sequencer produce the same tile set, the same animated indices and
\* animation specs, the same per-frame layer orders and the same ordered
\* list of frames, in the simple and in the unique-permutations order mode.
C2_SequencerDeterministic ==
    SeqBothDone =>
        /\ q_tiles = q_first.tiles
        /\ q_animate = q_first.animate
        /\ q_specs = q_first.specs
        /\ q_orders = q_first.orders
        /\ q_frames = q_first.frames

\* two runs that started from different states of the module-level
\* generator, with an animated tile, and frames that differ from each other
C2_Witness ==
    /\ SeqBothDone
    /\ q_gen.st.ambient = MaxAmbient
    /\ Len(q_animate) > 0
    /\ Len(q_frames) >= 2
    /\ q_frames[1].canvas # q_frames[2].canvas
    /\ q_frames = q_first.frames

\* the animation spec of tile idx, and whether it has one
IsAnimated(idx) == \E m \in 1..Len(q_specs) : q_specs[m].idx = idx

SpecOf(idx) == q_specs[CHOOSE m \in 1..Len(q_specs) : q_specs[m].idx = idx]

\* frame fi (0-based) is rendered, and tile idx is animated
AnimatedAt(fi, idx) ==
    /\ q_pc \in {"frames", "done"}
    /\ fi < Len(q_frames)
    /\ idx < Len(q_tiles)
    /\ IsAnimated(idx)

\* base + d at frame 0 / F - 1, scale in millionths
AtBase(fi, idx) ==
    LET en == q_frames[fi + 1].entries[idx + 1]
        t == q_tiles[idx + 1]
    IN  /\ en.center = t.base_center
        /\ en.scale = Tenths(t.base_scale)

AtTarget(fi, idx) ==
    LET en == q_frames[fi + 1].entries[idx + 1]
        t == q_tiles[idx + 1]
        sp == SpecOf(idx)
    IN  /\ en.center = <<t.base_center[1] + sp.dx, t.base_center[2] + sp.dy>>
        /\ en.scale = sp.scale_target * 1000

\* the first and the last frame of every animated tile, and the only one
Endpoints ==
    \A fi \in 0..(MaxFrames - 1), idx \in 0..(MaxTiles - 1) :
        AnimatedAt(fi, idx) =>
            /\ fi = 0 => AtBase(fi, idx)
            /\ (q_cfg.frames >= 2 /\ fi = q_cfg.frames - 1) => AtTarget(fi, idx)

\* frame fi is the middle frame of an odd number of frames
IsMiddle(fi) == q_cfg.frames % 2 = 1 /\ q_cfg.frames >= 3 /\ 2 * fi = q_cfg.frames - 1

\* C11 as stated: the first frame of an animated tile is at base_center and
\* base_scale, the last at base_center + (dx, dy) and scale_target, and
\* the middle frame of an odd F at base_center + round((dx, dy) * ease(0.5)).
C11_MiddleRoundedApart ==
    /\ Endpoints
    /\ \A fi \in 0..(MaxFrames - 1), idx \in 0..(MaxTiles - 1) :
          (AnimatedAt(fi, idx) /\ IsMiddle(fi)) =>
              LET en == q_frames[fi + 1].entries[idx + 1]
                  t == q_tiles[idx + 1]
                  sp == SpecOf(idx)
                  half == ease_smooth_sine(1, 2)
              IN  en.center = <<t.base_center[1] + RoundFloat(FMulInt(sp.dx, half)),
                                t.base_center[2] + RoundFloat(FMulInt(sp.dy, half))>>

\* C11, amended: the first frame of an animated tile is at base_center and
\* base_scale, the last (F >= 2) at base_center + (dx, dy) and scale_target,
\* the single frame of F = 1 at base_center and base_scale, and the middle
\* frame of an odd F at round(base_center + (dx, dy) * ease(0.5)), the sum
\* rounded as a whole, which is within half a pixel of base_center + (dx, dy) / 2.
C11_EasedEndpoints ==
    /\ Endpoints
    /\ \A fi \in 0..(MaxFrames - 1), idx \in 0..(MaxTiles - 1) :
          (AnimatedAt(fi, idx) /\ IsMiddle(fi)) =>
              LET en == q_frames[fi + 1].entries[idx + 1]
                  t == q_tiles[idx + 1]
                  sp == SpecOf(idx)
                  half == ease_smooth_sine(1, 2)
              IN  /\ en.center[1] = RoundFloat(FAdd(FromInt(t.base_center[1]),
                                                    FMulInt(sp.dx, half)))
                  /\ en.center[2] = RoundFloat(FAdd(FromInt(t.base_center[2]),
                                                    FMulInt(sp.dy, half)))
                  /\ Abs(2 * (en.center[1] - t.base_center[1]) - sp.dx) <= 1
                  /\ Abs(2 * (en.center[2] - t.base_center[2]) - sp.dy) <= 1

\* C12: ease(t) = 0.5 * (1 - cos(pi * t)) as the program computes it gives
\* ease(0) = 0, ease(1) = 1 and ease(0.5) = 0.5 exactly, at every frame of
\* every animated tile.
C12_EaseBoundary ==
    \A fi \in 0..(MaxFrames - 1), idx \in 0..(MaxTiles - 1) :
        AnimatedAt(fi, idx) =>
            LET en == q_frames[fi + 1].entries[idx + 1]
            IN  /\ en.tt[1] = 0 => en.eased = Float(0, 0)
                /\ en.tt[1] = en.tt[2] => en.eased = Float(1000, 0)
                /\ 2 * en.tt[1] = en.tt[2] => en.eased = Float(500, 0)

\* three frames of a tile that moves: at the base, half way, at the target
C11_Witness ==
    /\ q_pc = "done" /\ q_cfg.frames = 3
    /\ \E idx \in 0..(MaxTiles - 1) :
          /\ AnimatedAt(2, idx)
          /\ SpecOf(idx).dx # 0
          /\ SpecOf(idx).scale_target # q_tiles[idx + 1].base_scale * 100
          /\ AtBase(0, idx)
          /\ AtTarget(2, idx)
          /\ q_frames[2].entries[idx + 1].center[1] # q_tiles[idx + 1].base_center[1]

----------------------------------------------------------------------------
(* Properties of the permutation allocator *)

\* x is a permutation of [0..n)
IsPermutation(x, n) ==
    /\ Len(x) = n
    /\ \A i \in 0..(n - 1) : \E k \in 1..n : x[k] = i

PairwiseDistinct(x) ==
    \A i, j \in 1..Len(x) : i # j => x[i] # x[j]

\* the orders are ready to be handed to the frames
OrdersReady == q_pc = "frames"

\* C9: with unique permutations, for every N and F with F <= N! and N! within
\* the enumeration ceiling, and for every generator state, the F orders handed
\* to the frames are pairwise distinct.
C9_OrdersPairwiseDistinct ==
    (/\ OrdersReady /\ q_cfg.unique
     /\ q_cfg.frames <= factorial(Len(q_tiles))
     /\ factorial(Len(q_tiles)) <= MaxEnum) =>
        /\ Len(q_orders) = q_cfg.frames
        /\ PairwiseDistinct(q_orders)

\* N = 4, F = 10: ten orders out of 24
C9_Witness ==
    /\ OrdersReady /\ q_cfg.unique
    /\ Len(q_tiles) = 4 /\ q_cfg.frames = 10
    /\ Len(q_orders) = 10
    /\ q_alloc.path = "enumerate"

\* C10: the allocator (build_unique_orders and main's fill) hands over
\* exactly F orders, each a permutation of [0..N), for every N >= 1 and
\* F >= 1, also when F exceeds N! and when the attempt budget is exhausted.
C10_ExactlyFPermutations ==
    (OrdersReady /\ q_cfg.unique) =>
        /\ Len(q_orders) = q_cfg.frames
        /\ \A k \in 1..Len(q_orders) : IsPermutation(q_orders[k], Len(q_tiles))

\* F above N!, the budget of attempts used up, the shortfall filled
C10_Witness ==
    /\ OrdersReady /\ q_cfg.unique
    /\ q_cfg.frames > factorial(Len(q_tiles))
    /\ Len(q_tiles) > 1
    /\ q_alloc.attempts = MaxAttempts(q_cfg.frames)
    /\ q_alloc.returned < q_cfg.frames
    /\ Len(q_orders) = q_cfg.frames

\* build_unique_orders has returned fewer than F orders
Shortfall ==
    /\ q_cfg.unique /\ q_alloc.path = "fallback"
    /\ q_pc \in {"fill", "frames", "done"}
    /\ q_alloc.returned < q_cfg.frames

\* the part of C17 about the outcome: no error, the missing orders filled
\* with shuffles, all F frames produced
ShortfallFilled ==
    /\ q_pc \in {"frames", "done"} =>
          /\ Len(q_orders) = q_cfg.frames
          /\ \A k \in (q_alloc.returned + 1)..Len(q_orders) :
                IsPermutation(q_orders[k], Len(q_tiles))
    /\ q_pc = "done" => Len(q_frames) = q_cfg.frames

----------------------------------------------------------------------------
(* Properties of the layer orders and of the frame sequence *)

\* C21: every layer order used to paint a canvas or a frame (the shuffled
\* order of the compositor, the per-frame shuffled, enumerated, fallback and
\* fill orders of the sequencer) is a permutation of 0..N-1, so each of the
\* N placements is pasted exactly once per canvas and no index outside
\* [0, N) is used.
C21_OrdersArePermutations ==
    /\ \A k \in 1..Len(q_frames) :
          /\ IsPermutation(q_frames[k].order, Len(q_tiles))
          /\ Len(q_frames[k].entries) = Len(q_tiles)
          /\ q_frames[k].order = q_orders[k]
    /\ q_pc \in {"frames", "done"} =>
          /\ Len(q_orders) = q_cfg.frames
          /\ \A k \in 1..Len(q_orders) : IsPermutation(q_orders[k], Len(q_tiles))
    /\ (t_order # <<>> \/ t_pc \in {"paint", "paint03"}) =>
          /\ IsPermutation(t_order, t_cfg.tile_count)
          /\ Len(t_placements) = t_cfg.tile_count

\* a run in unique mode with a filled order: the three frames are painted,
\* the orders are not all the same
C21_Witness ==
    /\ q_pc = "done" /\ q_cfg.unique /\ Len(q_tiles) = 2 /\ Len(q_frames) = 3
    /\ q_alloc.returned = 2
    /\ q_frames[1].order # q_frames[2].order

\* C22: when the allocator takes the repeated-shuffle fallback (F > N! or
\* N! above the enumeration ceiling) its loop ends after at most
\* max(1000, 50 * F) shuffle attempts, the orders it collects are pairwise
\* distinct, and when F > N! it collects at most N! orders, so the final
\* list of F orders contains repeated permutations.
C22_FallbackBounded ==
    q_alloc.path = "fallback" =>
        /\ q_cfg.frames > factorial(Len(q_tiles)) \/ factorial(Len(q_tiles)) > MaxEnum
        /\ q_alloc.attempts <= MaxAttempts(q_cfg.frames)
        /\ Cardinality(q_alloc.seen) <= q_alloc.attempts
        /\ q_pc = "fallback" =>
              /\ PairwiseDistinct(q_orders)
              /\ Len(q_orders) = Cardinality(q_alloc.seen)
              /\ Len(q_orders) <= q_cfg.frames
        /\ q_pc \in {"fill", "frames", "done"} =>
              /\ PairwiseDistinct(SubSeq(q_orders, 1, q_alloc.returned))
              /\ q_alloc.returned = Cardinality(q_alloc.seen)
              /\ \/ q_alloc.returned = q_cfg.frames
                 \/ q_alloc.attempts = MaxAttempts(q_cfg.frames)
        /\ q_cfg.frames > factorial(Len(q_tiles)) =>
              /\ Len(q_orders) <= factorial(Len(q_tiles)) \/ q_pc \in {"frames", "done"}
              /\ q_alloc.returned <= factorial(Len(q_tiles))
              /\ q_pc \in {"frames", "done"} =>
                    (Len(q_orders) = q_cfg.frames /\ ~PairwiseDistinct(q_orders))

\* N = 3, F = 7: all six permutations collected, the budget of 1000 attempts
\* used up, and the seventh order a repeat
C22_Witness ==
    /\ q_pc = "frames" /\ q_alloc.path = "fallback"
    /\ Len(q_tiles) = 3 /\ q_cfg.frames = 7
    /\ q_alloc.returned = 6
    /\ q_alloc.attempts = MaxAttempts(7)
    /\ ~PairwiseDistinct(q_orders)

\* the setup of the sequencer is over: the tile set is sampled
SetupSampled == q_pc \in {"select", "specs", "orders", "fallback", "fill", "frames", "done"}

\* the draws of the log made for sampling a tile
SamplingDraw(d) == d[2] \in {"left", "top", "scale"}

\* C23: in the fixed-tile-set sequencer the tile set is sampled once during
\* setup: across all F frames every tile keeps the same source box, every
\* non-animated tile keeps the same image, center and scale, and no
\* sampling draw is made after setup; frames differ only in the layer order
\* and in the per-frame center and scale of the animated tiles.
C23_TileSetFixed ==
    /\ SetupSampled =>
          /\ Len(q_tiles) = q_cfg.tiles
          /\ Len(q_gen.log) >= 3 * q_cfg.tiles
          /\ \A k \in 1..Len(q_gen.log) :
                IF k <= 3 * q_cfg.tiles
                THEN q_gen.log[k] = <<"master", TileLabels(q_cfg.tiles)[k], 1>>
                ELSE ~SamplingDraw(q_gen.log[k])
    /\ \A f \in 1..Len(q_frames), k \in 1..Len(q_tiles) :
          LET en == q_frames[f].entries[k]
              t == q_tiles[k]
          IN  /\ en.box = t.orig_box
              /\ en.animated = IsAnimated(k - 1)
              /\ ~IsAnimated(k - 1) =>
                    /\ en.image = t.static_img
                    /\ en.center = t.base_center
                    /\ en.scale = Tenths(t.base_scale)
    /\ \A f, g \in 1..Len(q_frames) :
          (/\ q_frames[f].order = q_frames[g].order
           /\ \A k \in 1..Len(q_tiles) :
                 IsAnimated(k - 1) =>
                    /\ q_frames[f].entries[k].center = q_frames[g].entries[k].center
                    /\ q_frames[f].entries[k].scale = q_frames[g].entries[k].scale)
          => q_frames[f].canvas = q_frames[g].canvas

\* three frames of two tiles, one of them animated: the static tile is the
\* same in all of them, the frames are not
C23_Witness ==
    /\ q_pc = "done" /\ Len(q_frames) = 3 /\ Len(q_tiles) = 2 /\ Len(q_specs) = 1
    /\ q_frames[1].canvas # q_frames[3].canvas
    /\ \E k \in 1..2 :
          /\ ~IsAnimated(k - 1)
          /\ q_frames[1].entries[k] = q_frames[3].entries[k]
          /\ q_frames[1].entries[3 - k].center # q_frames[3].entries[3 - k].center

\* the animated tiles are selected
AnimateSelected == q_pc \in {"specs", "orders", "fallback", "fill", "frames", "done"}

\* C24: for every tile count N and animate count A with 0 <= A <= N the set
\* of animated tiles has exactly A pairwise distinct indices, all in
\* [0, N); it is chosen once during setup and is the same in every frame;
\* and for A = 0 no selection draw is consumed.
C24_AnimatedSetFixed ==
    /\ AnimateSelected =>
          /\ Len(q_animate) = q_cfg.animate_count
          /\ PairwiseDistinct(q_animate)
          /\ \A m \in 1..Len(q_animate) : q_animate[m] \in 0..(q_cfg.tiles - 1)
          /\ Cardinality({k \in 1..Len(q_gen.log) : q_gen.log[k][2] = "select"})
                <= (IF q_cfg.animate_count = 0 THEN 0 ELSE 1)
          /\ \A m \in 1..Len(q_specs) : q_specs[m].idx = q_animate[m]
    /\ ~AnimateSelected => \A k \in 1..Len(q_gen.log) : q_gen.log[k][2] # "select"
    /\ \A f \in 1..Len(q_frames) :
          /\ Len(q_specs) = Len(q_animate)
          /\ {k \in 1..Len(q_tiles) : q_frames[f].entries[k].animated}
                = {q_animate[m] + 1 : m \in 1..Len(q_animate)}

\* one of two tiles animated, the second one, in each of three frames
C24_Witness ==
    /\ q_pc = "done" /\ Len(q_frames) = 3 /\ q_cfg.tiles = 2
    /\ q_animate = <<1>>
    /\ \A f \in 1..3 : q_frames[f].entries[2].animated /\ ~q_frames[f].entries[1].animated

\* the number of draws of the master generator made for `label`
DrawsFor(label) ==
    Cardinality({k \in 1..Len(q_gen.log) : q_gen.log[k][2] = label /\ q_gen.log[k][3] = 1})

\* C25: for every animated tile and every frame the center stays within
\* round(tile_w * max_offset_frac) horizontally and round(tile_h *
\* max_offset_frac) vertically of base_center, the scale stays between
\* base_scale and scale_target, and scale_target is within base_scale *
\* (1 +/- scale_delta_frac); dx, dy and scale_target are drawn once in
\* setup, one draw each per animated tile.
C25_AnimationBounded ==
    /\ \A m \in 1..Len(q_specs) :
          LET sp == q_specs[m]
              t == q_tiles[sp.idx + 1]
          IN  /\ Abs(sp.dx) <= RoundDiv(t.tile_w * q_cfg.offset_frac, 100)
              /\ Abs(sp.dy) <= RoundDiv(t.tile_h * q_cfg.offset_frac, 100)
              /\ Abs(sp.scale_target - t.base_scale * 100) * 100
                    <= t.base_scale * 100 * q_cfg.scale_delta_frac
    /\ DrawsFor("dx") = Len(q_specs)
    /\ DrawsFor("dy") = Len(q_specs)
    /\ DrawsFor("scale_target") = Len(q_specs)
    /\ \A k \in 1..Len(q_gen.log) :
          q_gen.log[k][2] \in {"dx", "dy", "scale_target"} => q_gen.log[k][3] = 1
    /\ \A fi \in 0..(MaxFrames - 1), idx \in 0..(MaxTiles - 1) :
          AnimatedAt(fi, idx) =>
              LET en == q_frames[fi + 1].entries[idx + 1]
                  t == q_tiles[idx + 1]
                  sp == SpecOf(idx)
                  base == Tenths(t.base_scale)
                  target == sp.scale_target * 1000
              IN  /\ Abs(en.center[1] - t.base_center[1])
                        <= RoundDiv(t.tile_w * q_cfg.offset_frac, 100)
                  /\ Abs(en.center[2] - t.base_center[2])
                        <= RoundDiv(t.tile_h * q_cfg.offset_frac, 100)
                  /\ Min(base, target) <= en.scale /\ en.scale <= Max(base, target)

\* a tile that reaches the largest offset allowed, and a scale strictly
\* between its base scale and its target on the way
C25_Witness ==
    /\ q_pc = "done" /\ q_cfg.frames = 3
    /\ \E idx \in 0..(MaxTiles - 1) :
          /\ AnimatedAt(2, idx)
          /\ LET t == q_tiles[idx + 1]
                 mid == q_frames[2].entries[idx + 1]
                 last == q_frames[3].entries[idx + 1]
             IN  /\ Abs(last.center[1] - t.base_center[1])
                       = RoundDiv(t.tile_w * q_cfg.offset_frac, 100)
                 /\ last.center[1] # t.base_center[1]
                 /\ mid.scale # Tenths(t.base_scale)
                 /\ mid.scale # last.scale

\* the number of draws made from generator `who`
RECURSIVE DrawsFrom(_, _)
DrawsFrom(log, who) ==
    IF log = <<>> THEN 0
    ELSE DrawsFrom(SubSeq(log, 1, Len(log) - 1), who)
         + (IF log[Len(log)][1] = who THEN log[Len(log)][3] ELSE 0)

\* C26: in per-frame sub-seed mode the master generator is advanced by
\* exactly one draw per frame, the sub-seed of frame f being the (f+1)-th,
\* and everything random in a frame (its placements, its layer order) is
\* a function of the sub-seed and the configuration only: in two runs of
\* the same call frame f has the same sub-seed and is the same frame,
\* whatever else was computed before it.
C26_FrameFunctionOfSubSeed ==
    t_cfg.entry = "animation" =>
        /\ DrawsFrom(t_gen.log, "base") = Len(t_out.seeds)
        /\ \A f \in 1..Len(t_out.seeds) :
              t_run = 2 => t_out.seeds[f] = t_first.seeds[f]
        /\ \A f \in 1..Len(t_out.frames) :
              t_run = 2 =>
                  /\ t_out.frames[f] = t_first.frames[f]
                  /\ t_out.orders[f] = t_first.orders[f]

\* the pixels of the canvas of the sequencer an entry of a frame covers
SeqFootprint(e) ==
    LET o == PasteCorner(e)
    IN  {c \in Coords(q_cfg.img_w, q_cfg.img_h) :
            /\ o[1] <= c[1] /\ c[1] < o[1] + e.image.w
            /\ o[2] <= c[2] /\ c[2] < o[2] + e.image.h}

\* the entries of frame k that cover pixel c, as positions in its layer order
CoveringIn(k, c) ==
    {j \in 1..Len(q_frames[k].order) :
        c \in SeqFootprint(q_frames[k].entries[q_frames[k].order[j] + 1])}

\* C27: the sequencer makes its frames in increasing index order, never
\* more than F of them and exactly F when it has finished; frame k is made
\* of the tiles at time index k - 1 and of the k-th layer order, on a canvas
\* of the source size W x H, and every pixel of it is the pixel of the last
\* entry of that frame covering it, or background when none does: nothing
\* pasted in an earlier frame is carried into it.
C27_FramesOnFreshCanvas ==
    /\ Len(q_frames) <= q_cfg.frames
    /\ Len(q_frames) > 0 => q_pc \in {"frames", "done"}
    /\ q_pc = "done" => Len(q_frames) = q_cfg.frames /\ q_cfg.frames >= 1
    /\ \A k \in 1..Len(q_frames) :
          LET fr == q_frames[k]
          IN  /\ fr.order = q_orders[k]
              /\ fr.entries = FrameEntries(q_cfg, q_tiles, q_specs, k - 1)
              /\ fr.canvas.w = q_cfg.img_w /\ fr.canvas.h = q_cfg.img_h
              /\ \A c \in Coords(q_cfg.img_w, q_cfg.img_h) :
                    IF CoveringIn(k, c) = {} THEN fr.canvas.px[c] = Bg
                    ELSE LET last == CHOOSE j \in CoveringIn(k, c) :
                                         \A i \in CoveringIn(k, c) : i <= j
                         IN  fr.canvas.px[c]
                               = PixelOn(fr.entries[fr.order[last] + 1], c)

\* a finished run of at least two frames in which a pixel painted in one
\* frame is background in the next
C27_Witness ==
    /\ q_pc = "done" /\ q_cfg.frames >= 2
    /\ \E k \in 1..(Len(q_frames) - 1) : \E c \in Coords(q_cfg.img_w, q_cfg.img_h) :
          /\ q_frames[k].canvas.px[c] # Bg
          /\ q_frames[k + 1].canvas.px[c] = Bg

\* r is n / d rounded to the nearest integer, a half going to the even one
IsNearest(r, n, d) ==
    /\ 2 * Abs(r * d - n) <= d
    /\ 2 * Abs(r * d - n) = d => r % 2 = 0

\* len is max(1, round(box_len * scale)), the scale in tenths
IsScaledLen(len, box_len, scale) ==
    \E r \in 0..(box_len * Max(scale, 0)) : IsNearest(r, box_len * scale, 10) /\ len = Max(1, r)

\* C28: every rendered tile is max(1, round(tile_w * scale)) wide and
\* max(1, round(tile_h * scale)) high, so at least 1 x 1: the image of every
\* placement agrees with the width and height of its box and with its
\* scale; a 20 x 20 tile at scale 1.2 is rendered 24 x 24.
C28_TileSizeFromScale ==
    /\ crop_and_scale_tile("RGB", 255, 0, 0, 20, 20, Tenths(12)).w = 24
    /\ crop_and_scale_tile("RGB", 255, 0, 0, 20, 20, Tenths(12)).h = 24
    /\ t_cfg.entry \in {"layered", "animation", "frame03"} =>
          \A k \in 1..Len(t_placements) :
              LET pl == t_placements[k]
              IN  /\ pl.box[3] - pl.box[1] = t_cfg.tile_w
                  /\ pl.box[4] - pl.box[2] = t_cfg.tile_h
                  /\ pl.image.w >= 1 /\ pl.image.h >= 1
                  /\ IsScaledLen(pl.image.w, pl.box[3] - pl.box[1], pl.scale)
                  /\ IsScaledLen(pl.image.h, pl.box[4] - pl.box[2], pl.scale)
                  /\ Coords(pl.image.w, pl.image.h) = DOMAIN pl.image.px

\* a 2 x 1 tile at scale 1.6 rendered 3 x 2: the width is rounded down and
\* the height up
C28_Witness ==
    /\ t_cfg.entry \in {"layered", "animation"}
    /\ \E k \in 1..Len(t_placements) :
          LET pl == t_placements[k]
          IN  /\ pl.scale = 16
              /\ pl.box[3] - pl.box[1] = 2 /\ pl.box[4] - pl.box[2] = 1
              /\ pl.image.w = 3 /\ pl.image.h = 2

\* C29: each animated tile goes from its base to its target and back to its
\* base over the frame range: in the last frame of a finished run its
\* center and scale are those of the first frame.
C29_LoopContinuity ==
    q_pc = "done" =>
        \A k \in 1..Len(q_tiles) :
            LET first == q_frames[1].entries[k]
                last == q_frames[Len(q_frames)].entries[k]
            IN  first.animated =>
                    /\ last.center = first.center
                    /\ last.scale = first.scale

\* the tile of the sampled box at scale 1, pasted back on a canvas of the
\* size of the image at the sampled center
PastedBack ==
    paste_with_center(NewImage(s_args.img_w, s_args.img_h, "RGB"),
                      crop_and_scale_tile("RGB", 255, s_res.pos.left, s_res.pos.top,
                                          s_args.tile_w, s_args.tile_h, Tenths(10)),
                      s_res.pos.center_x, s_res.pos.center_y)

\* the pixels of the sampled box
SampledBox ==
    {c \in Coords(s_args.img_w, s_args.img_h) :
        /\ s_res.pos.left <= c[1] /\ c[1] < s_res.pos.left + s_args.tile_w
        /\ s_res.pos.top <= c[2] /\ c[2] < s_res.pos.top + s_args.tile_h}

\* C30: a tile_w x tile_h image pasted at the center the sampler returned
\* for it, (left + tile_w // 2, top + tile_h // 2), has its corner at
\* (left, top): its footprint is the sampled box, inside the canvas and not
\* clipped, for odd and for even tile sizes.
C30_SampleThenPasteRoundTrip ==
    (s_pc = "done" /\ SamplerValidArgs) =>
        LET r == PastedBack
        IN  /\ r.performed /\ ~r.raised
            /\ r.geo.paste_x = s_res.pos.left
            /\ r.geo.paste_y = s_res.pos.top
            /\ r.geo.srcBox = <<0, 0, s_args.tile_w, s_args.tile_h>>
            /\ r.written = SampledBox
            /\ Cardinality(r.written) = s_args.tile_w * s_args.tile_h
            /\ \A c \in Coords(s_args.img_w, s_args.img_h) :
                  r.dest.px[c] = IF c \in SampledBox
                                 THEN <<s_res.pos.left, s_res.pos.top, Tenths(10),
                                        c[1] - s_res.pos.left, c[2] - s_res.pos.top>>
                                 ELSE Bg

\* a 1 x 2 tile, odd and even, sampled away from the corner of the image by
\* the toolkit and pasted back on its box
C30_Witness ==
    /\ s_pc = "done" /\ s_res.which = "toolkit" /\ ~s_res.pos.raised
    /\ s_args.tile_w = 1 /\ s_args.tile_h = 2
    /\ s_res.pos.left > 0 /\ s_res.pos.top > 0
    /\ PastedBack.written = SampledBox
====
